---- MODULE Spec2Model ----
(***************************************************************************)
(* Session-and-security subsystem of the wallet client:                    *)
(*   SessionManager  (session registry, expiry sweep, activity channel),   *)
(*   SecurityManager (attempt tracker, security levels),                   *)
(*   ActivityMonitor (activity log, retention sweep).                      *)
(*                                                                         *)
(* Time is in seconds.  time.Time values are naturals, time.Duration      *)
(* values are naturals; t.After(u) is t > u and t.Before(u) is t < u.      *)
(* Every SessionManager / AttemptTracker method holds its component's      *)
(* mutex from entry to return, so each is one atomic action.  Shutdown    *)
(* and ApplySecurityLevel hold no lock across their calls and are split   *)
(* into one action per call.  The foreground (UI) thread is one thread:   *)
(* fgPc is its position; the background goroutines interleave with it.    *)
(***************************************************************************)
EXTENDS Naturals, Integers, Sequences, FiniteSets, TLC

VARIABLES
    now,               \* time.Now()
    sessions,          \* SessionManager.sessions : map[string]*WalletSession
    config,            \* SessionManager.config
    cleanupTickerNext, \* instant of the cleanupTicker's next tick
    tickerC,           \* ticks waiting in cleanupTicker.C (buffer of 1)
    tickerStopped,     \* cleanupTicker.Stop() was called
    stopCleanup,       \* the stopCleanup channel is closed
    cleanupRunning,    \* the goroutine of startCleanupRoutine is alive
    activityChannel,   \* SessionManager.activityChannel (buffered, FIFO)
    nextToken,         \* source of fresh random session tokens
    released,          \* session objects no longer in the map (still on the heap)
    heldAtShutdown,    \* session objects in the map when Shutdown was last called
    shutdownReturned,  \* Shutdown has returned at least once
    attempts,          \* AttemptTracker.attempts : map[string]*AttemptRecord
    maxAttempts,       \* AttemptTracker.maxAttempts
    lockoutDuration,   \* AttemptTracker.lockoutDuration
    activityLog,       \* ActivityMonitor.activityLog
    amLocked,          \* ActivityMonitor.mu is write-locked
    amNextTick,        \* instant of the next tick of the retention ticker
    fgPc,              \* position of the foreground thread
    fgArg,             \* argument the foreground thread carries between steps
    crashed,           \* the process has panicked
    ret,               \* the operation that ran last and what it returned
    sessionFile,       \* content of SessionStore.sessionFile (sessions.enc)
    tempFile,          \* content of sessionFile + ".tmp"
    backupFile,        \* content of sessionFile + ".backup"
    loaded,            \* what the last LoadSessions returned
    recoveryLog,       \* SessionRecoveryManager.recoveryLog
    savePending,       \* the map and instant of the SaveSessions in progress
    saveCommitted,     \* the map and instant of the last SaveSessions that returned nil
    storeCalls,        \* calls of the store and writes to its file so far
    smMu,              \* the goroutine inside a critical section of SessionManager.mu
    evaluating,        \* analyses of the activity log in progress under am.mu.RLock()
    amReaders,         \* queries that hold am.mu.RLock() and have a further RLock() to take
    amWaiting          \* the retention goroutine waits in am.mu.Lock()

vars == <<now, sessions, config, cleanupTickerNext, tickerC, tickerStopped,
          stopCleanup, cleanupRunning, activityChannel, nextToken, released,
          heldAtShutdown, shutdownReturned, attempts, maxAttempts,
          lockoutDuration, activityLog, amLocked, amNextTick, fgPc, fgArg,
          crashed, ret, sessionFile, tempFile, backupFile, loaded,
          recoveryLog, savePending, saveCommitted, storeCalls, smMu,
          evaluating, amReaders, amWaiting>>

registryVars == <<sessions, config, cleanupTickerNext, tickerC, tickerStopped,
                  stopCleanup, cleanupRunning, activityChannel, nextToken,
                  released, heldAtShutdown, shutdownReturned>>
trackerVars == <<attempts, maxAttempts, lockoutDuration>>
monitorVars == <<activityLog, amLocked, amNextTick>>
storeVars == <<sessionFile, tempFile, backupFile, loaded, recoveryLog,
               savePending, saveCommitted, storeCalls>>
readerVars == <<amReaders, amWaiting>>
lockVars == <<smMu, evaluating, readerVars>>

(***************************************************************************)
(* Bounds of the model.                                                    *)
(***************************************************************************)
\* Sessions created in one run (each takes a fresh token).
MaxTokens == 2
\* Instants up to which the clock advances in steps of TickSteps.
MaxTime == 150
\* Activities waiting in the activity channel in the explored runs.
MaxQueued == 1
\* Failures recorded per wallet in the explored runs.
MaxCount == 8
\* Ticks of the activity monitor's retention ticker in the explored runs.
MaxRetentionTicks == 1
\* Calls of a recovery procedure in the explored runs.
MaxRecoveries == 1
\* Calls of the store and writes to its file in the explored runs.
MaxStoreCalls == 3

WalletIDs == {"w1", "w2"}
\* Steps by which the clock advances between two operations.
TickSteps == {30}
\* Action and view labels recorded: one action that extends the session on
\* the activity monitor, one that does not.
Actions == {"view_balance", "password_attempt"}
Views == {"dashboard"}
\* The security levels applied in the explored runs.
LevelInputs == {"max"}
\* The security levels applied in the runs of the level selector: the
\* strictest one and one with a higher threshold.
AppliedLevels == {"max", "medium"}

(***************************************************************************)
(* Program constants.                                                      *)
(***************************************************************************)
\* make(chan SessionActivity, 100)
ChannelCapacity == 100
\* time.NewTicker(1 * time.Hour) of the activity monitor
RetentionTickerPeriod == 3600
\* logRetention: 24 * time.Hour
DefaultLogRetention == 86400
\* the empty session token ""
NoToken == 0
\* the zero time.Time{}, before every instant of the clock
ZeroTime == -1
\* an empty Go map
EmptyMap == [x \in {} |-> x]
\* nonceLength of the encryption: the NonceSize of AES-GCM
NonceLength == 12
\* NewActivityMonitor: suspiciousThreshold.
SuspiciousThreshold == 10
\* analyzeActivityPattern: the window of GetRecentActivity, 1*time.Hour.
PatternWindow == 3600
\* a path at which no file exists
NoFile == [kind |-> "absent", records |-> {}]
\* no SaveSessions call
NoSave == [S |-> EmptyMap, at |-> ZeroTime]

\* NewSessionManager's config
DefaultConfig ==
    [DefaultTimeout |-> 300, MaxSessions |-> 5, CleanupInterval |-> 30,
     InactivityLimit |-> 300, RequirePassword |-> TRUE]

SecurityLevels == {"low", "medium", "high", "max"}

\* The SessionConfig ApplySecurityLevel passes to UpdateConfig.
LevelConfig(level) ==
    CASE level = "low" ->
           [DefaultTimeout |-> 1800, MaxSessions |-> 10, CleanupInterval |-> 60,
            InactivityLimit |-> 1800, RequirePassword |-> FALSE]
      [] level = "medium" ->
           [DefaultTimeout |-> 900, MaxSessions |-> 5, CleanupInterval |-> 30,
            InactivityLimit |-> 900, RequirePassword |-> TRUE]
      [] level = "high" ->
           [DefaultTimeout |-> 300, MaxSessions |-> 3, CleanupInterval |-> 15,
            InactivityLimit |-> 300, RequirePassword |-> TRUE]
      [] level = "max" ->
           [DefaultTimeout |-> 120, MaxSessions |-> 1, CleanupInterval |-> 10,
            InactivityLimit |-> 120, RequirePassword |-> TRUE]

\* The (maxAttempts, lockoutDuration) ApplySecurityLevel passes to
\* UpdateAttemptTrackerConfig.
LevelAttempts(level) ==
    CASE level = "low" -> [maxAttempts |-> 5, lockoutDuration |-> 60]
      [] level = "medium" -> [maxAttempts |-> 3, lockoutDuration |-> 300]
      [] level = "high" -> [maxAttempts |-> 3, lockoutDuration |-> 900]
      [] level = "max" -> [maxAttempts |-> 1, lockoutDuration |-> 3600]

\* The wallet handed to CreateSession for an identity: w1 is a wallet that
\* NewWallet derived (private key and mnemonic set), every other one is a
\* wallet that LoadWallet unmarshalled (both fields are json:"-", so
\* neither is set).
WalletOf(walletID) ==
    IF walletID = "w1"
    THEN [nil |-> FALSE, PrivateKey |-> TRUE, Mnemonic |-> TRUE]
    ELSE [nil |-> FALSE, PrivateKey |-> FALSE, Mnemonic |-> FALSE]

(***************************************************************************)
(* Session objects.                                                        *)
(***************************************************************************)
Held == DOMAIN sessions

\* delete(sm.sessions, walletID)
MapDelete(m, k) == [x \in (DOMAIN m) \ {k} |-> m[x]]

\* sm.sessions[walletID] = session
MapPut(m, k, v) == [x \in (DOMAIN m) \cup {k} |-> IF x = k THEN v ELSE m[x]]

\* clearSensitiveData without the reset of the token.
clearSensitiveData_keepToken(session) ==
    LET w == session.UnlockedWallet
    IN  IF ~w.nil /\ w.PrivateKey
        THEN [session EXCEPT !.UnlockedWallet =
                 [nil |-> FALSE, PrivateKey |-> FALSE, Mnemonic |-> FALSE]]
        ELSE session

\* clearSensitiveData: zero and drop the private key and the mnemonic of a
\* wallet that has a private key, then clear the token.
clearSensitiveData(session) ==
    LET w == session.UnlockedWallet
        cleared == IF ~w.nil /\ w.PrivateKey
                   THEN [session EXCEPT !.UnlockedWallet =
                            [nil |-> FALSE, PrivateKey |-> FALSE, Mnemonic |-> FALSE]]
                   ELSE session
    IN  [cleared EXCEPT !.SessionToken = NoToken]

\* session.IsActive = false; sm.clearSensitiveData(session): what the three
\* removal paths do to the object before delete().
Deactivate(session) == clearSensitiveData([session EXCEPT !.IsActive = FALSE])

\* What stays on the heap of a session object that left the map.
Heap(session) ==
    [oid |-> session.oid, WalletID |-> session.WalletID,
     SessionToken |-> session.SessionToken,
     UnlockedWallet |-> session.UnlockedWallet, IsActive |-> session.IsActive]

\* A session object carries secret material.
CarriesSecret(o) ==
    \/ o.SessionToken # NoToken
    \/ (~o.UnlockedWallet.nil /\ (o.UnlockedWallet.PrivateKey \/ o.UnlockedWallet.Mnemonic))

(***************************************************************************)
(* Read-only queries of the SessionManager.                                *)
(***************************************************************************)
\* GetSession with the expiry test of GetActiveSessions.
GetSession_strict(walletID) ==
    LET exists == walletID \in DOMAIN sessions
    IN  exists /\ sessions[walletID].IsActive /\ now < sessions[walletID].ExpiresAt

\* GetSession's second result.
GetSession(walletID) ==
    LET exists == walletID \in DOMAIN sessions
    IN  ~(~exists \/ ~sessions[walletID].IsActive \/ now > sessions[walletID].ExpiresAt)

\* ValidateSession without the expiry test.
ValidateSession_noExpiry(walletID, token) ==
    LET exists == walletID \in DOMAIN sessions
    IN  IF ~exists \/ ~sessions[walletID].IsActive
        THEN FALSE
        ELSE sessions[walletID].SessionToken = token

ValidateSession(walletID, token) ==
    LET exists == walletID \in DOMAIN sessions
    IN  IF ~exists \/ ~sessions[walletID].IsActive
        THEN FALSE
        ELSE IF now > sessions[walletID].ExpiresAt
             THEN FALSE
             ELSE sessions[walletID].SessionToken = token

GetActiveSessions ==
    {walletID \in DOMAIN sessions :
        sessions[walletID].IsActive /\ now < sessions[walletID].ExpiresAt}

GetTimeRemaining(walletID) ==
    LET exists == walletID \in DOMAIN sessions
    IN  IF ~exists \/ ~sessions[walletID].IsActive
        THEN 0
        ELSE IF sessions[walletID].ExpiresAt - now < 0
             THEN 0
             ELSE sessions[walletID].ExpiresAt - now

\* GetSessionStatus reporting a session as expired from the instant of its
\* expiry on.
GetSessionStatus_expiredAtExpiry(walletID) ==
    IF walletID \notin DOMAIN sessions THEN "inactive"
    ELSE IF ~sessions[walletID].IsActive THEN "inactive"
    ELSE IF now >= sessions[walletID].ExpiresAt THEN "expired"
    ELSE IF sessions[walletID].ExpiresAt - now < 120 THEN "expiring"
    ELSE "active"

\* What GetSessionStatus(walletID) returns.
GetSessionStatus(walletID) ==
    IF walletID \notin DOMAIN sessions THEN "inactive"
    ELSE IF ~sessions[walletID].IsActive THEN "inactive"
    ELSE IF now > sessions[walletID].ExpiresAt THEN "expired"
    ELSE IF sessions[walletID].ExpiresAt - now < 120 THEN "expiring"
    ELSE "active"

(***************************************************************************)
(* Initial state: NewSessionManager, NewSecurityManager, NewActivityMonitor *)
(***************************************************************************)
InitAt(c, tracker, file, backup, retentionTick) ==
    /\ now = 0
    /\ config = c
    /\ cleanupTickerNext = DefaultConfig.CleanupInterval
    /\ tickerC = 0
    /\ tickerStopped = FALSE
    /\ stopCleanup = FALSE
    /\ cleanupRunning = TRUE
    /\ released = {}
    /\ heldAtShutdown = {}
    /\ shutdownReturned = FALSE
    /\ attempts = EmptyMap
    /\ maxAttempts = tracker.maxAttempts
    /\ lockoutDuration = tracker.lockoutDuration
    /\ amLocked = FALSE
    /\ amNextTick = retentionTick
    /\ fgPc = "idle"
    /\ fgArg = "none"
    /\ crashed = FALSE
    /\ ret = [op |-> "init", id |-> "none", ok |-> TRUE]
    /\ sessionFile = file
    /\ tempFile = NoFile
    /\ backupFile = backup
    /\ loaded = EmptyMap
    /\ recoveryLog = << >>
    /\ savePending = NoSave
    /\ saveCommitted = NoSave
    /\ storeCalls = 0
    /\ smMu = "free"
    /\ evaluating = {}
    /\ amReaders = {}
    /\ amWaiting = FALSE

\* The program at its start: the retention ticker fires after its period.
InitFiles(c, tracker, file, backup) ==
    InitAt(c, tracker, file, backup, RetentionTickerPeriod)

\* The program with no file of the session store on the disk.
InitWith(c, tracker) == InitFiles(c, tracker, NoFile, NoFile)

\* NewAttemptTracker(3, 15*time.Minute).
DefaultAttempts == [maxAttempts |-> 3, lockoutDuration |-> 900]

Init ==
    /\ InitWith(DefaultConfig, DefaultAttempts)
    /\ sessions = EmptyMap
    /\ nextToken = 1
    /\ activityLog = << >>
    /\ activityChannel = << >>

\* The foreground thread is free to start an operation.
FgIdle == fgPc = "idle" /\ ~crashed

Result(op, id, ok) == [op |-> op, id |-> id, ok |-> ok]

(***************************************************************************)
(* SessionManager: foreground operations.                                  *)
(***************************************************************************)
\* The session object CreateSession builds.  generateSessionToken reads 32
\* random bytes: a fresh token.  (crypto/rand.Read returns no error in the
\* Go version of go.mod, so the token-failure return is never taken.)
\* NewSession with one token for every session.
NewSession_sameToken(walletID, wallet) ==
    [oid |-> nextToken, WalletID |-> walletID, UnlockedWallet |-> wallet,
     CreatedAt |-> now, LastActivity |-> now,
     ExpiresAt |-> now + config.DefaultTimeout,
     SessionToken |-> 1, IsActive |-> TRUE]

NewSession(walletID, wallet) ==
    [oid |-> nextToken, WalletID |-> walletID, UnlockedWallet |-> wallet,
     CreatedAt |-> now, LastActivity |-> now,
     ExpiresAt |-> now + config.DefaultTimeout,
     SessionToken |-> nextToken, IsActive |-> TRUE]

\* The capacity check with > for >=.
AtCapacity_gt == Cardinality(DOMAIN sessions) > config.MaxSessions

\* CreateSession's capacity check.
AtCapacity == Cardinality(DOMAIN sessions) >= config.MaxSessions

CreateSession(walletID, wallet) ==
    /\ FgIdle
    /\ nextToken <= MaxTokens
    /\ IF AtCapacity
       THEN /\ ret' = Result("CreateSession", walletID, FALSE)
            /\ UNCHANGED <<sessions, nextToken, released>>
       ELSE /\ sessions' = MapPut(sessions, walletID, NewSession(walletID, wallet))
            /\ released' = released \cup
                  (IF walletID \in DOMAIN sessions
                   THEN {Heap(sessions[walletID])} ELSE {})
            /\ nextToken' = nextToken + 1
            /\ ret' = Result("CreateSession", walletID, TRUE)
    /\ UNCHANGED <<now, config, cleanupTickerNext, tickerC, tickerStopped,
                   stopCleanup, cleanupRunning, activityChannel, heldAtShutdown,
                   shutdownReturned, trackerVars, monitorVars, fgPc, fgArg, crashed,
                   storeVars, lockVars>>

\* session.LastActivity = now; session.ExpiresAt = now.Add(DefaultTimeout)
Extended(session) ==
    [session EXCEPT !.LastActivity = now,
                    !.ExpiresAt = now + config.DefaultTimeout]

\* ExtendSession succeeds on this identity.
CanExtend(walletID) ==
    walletID \in DOMAIN sessions /\ sessions[walletID].IsActive

ExtendSession(walletID) ==
    /\ FgIdle
    /\ IF ~CanExtend(walletID)
       THEN /\ ret' = Result("ExtendSession", walletID, FALSE)
            /\ UNCHANGED sessions
       ELSE /\ sessions' = [sessions EXCEPT ![walletID] = Extended(@)]
            /\ ret' = Result("ExtendSession", walletID, TRUE)
    /\ UNCHANGED <<now, config, cleanupTickerNext, tickerC, tickerStopped,
                   stopCleanup, cleanupRunning, activityChannel, nextToken,
                   released, heldAtShutdown, shutdownReturned, trackerVars,
                   monitorVars, fgPc, fgArg, crashed, storeVars, lockVars>>

\* A call of GetSessionStatus: a read under sm.mu.RLock().
GetSessionStatus_call(walletID) ==
    /\ FgIdle
    /\ ret' = Result("GetSessionStatus", walletID, TRUE)
    /\ UNCHANGED <<now, registryVars, trackerVars, monitorVars, fgPc, fgArg,
                   crashed, storeVars, lockVars>>

\* A send that waits for no room.
Sent_unbounded(channel, activity) == Append(channel, activity)

\* The channel after select { case channel <- activity: default: }.
Sent(channel, activity) ==
    IF Len(channel) < ChannelCapacity THEN Append(channel, activity) ELSE channel

\* RecordActivity: a non-blocking send; the activity is dropped when the
\* channel is full.  The explored runs call it while fewer than MaxQueued
\* activities wait or while the channel is full.
RecordActivity(walletID, action, viewName) ==
    /\ FgIdle
    /\ Len(activityChannel) < MaxQueued \/ Len(activityChannel) = ChannelCapacity
    /\ LET activity == [WalletID |-> walletID, Action |-> action,
                        Timestamp |-> now, ViewName |-> viewName]
       IN  /\ activityChannel' = Sent(activityChannel, activity)
           /\ ret' = Result("RecordActivity", walletID,
                            Len(activityChannel) < ChannelCapacity)
    /\ UNCHANGED <<now, sessions, config, cleanupTickerNext, tickerC,
                   tickerStopped, stopCleanup, cleanupRunning, nextToken,
                   released, heldAtShutdown, shutdownReturned, trackerVars,
                   monitorVars, fgPc, fgArg, crashed, storeVars, lockVars>>

CloseSession(walletID) ==
    /\ FgIdle
    /\ IF walletID \notin DOMAIN sessions
       THEN /\ ret' = Result("CloseSession", walletID, FALSE)
            /\ UNCHANGED <<sessions, released>>
       ELSE /\ released' = released \cup {Heap(Deactivate(sessions[walletID]))}
            /\ sessions' = MapDelete(sessions, walletID)
            /\ ret' = Result("CloseSession", walletID, TRUE)
    /\ UNCHANGED <<now, config, cleanupTickerNext, tickerC, tickerStopped,
                   stopCleanup, cleanupRunning, activityChannel, nextToken,
                   heldAtShutdown, shutdownReturned, trackerVars, monitorVars,
                   fgPc, fgArg, crashed, storeVars, lockVars>>

\* The session objects CloseAllSessions deactivates, clears and deletes.
ClosedByCloseAll == DOMAIN sessions

\* The body of CloseAllSessions without clearSensitiveData.
CloseAll_noClear ==
    /\ released' = released \cup
          {Heap([sessions[w] EXCEPT !.IsActive = FALSE]) : w \in ClosedByCloseAll}
    /\ sessions' = [w \in (DOMAIN sessions) \ ClosedByCloseAll |-> sessions[w]]

\* The body of CloseAllSessions.
CloseAll ==
    /\ released' = released \cup
          {Heap(Deactivate(sessions[w])) : w \in ClosedByCloseAll}
    /\ sessions' = [w \in (DOMAIN sessions) \ ClosedByCloseAll |-> sessions[w]]

CloseAllSessions ==
    /\ FgIdle
    /\ CloseAll
    /\ ret' = Result("CloseAllSessions", "none", TRUE)
    /\ UNCHANGED <<now, config, cleanupTickerNext, tickerC, tickerStopped,
                   stopCleanup, cleanupRunning, activityChannel, nextToken,
                   heldAtShutdown, shutdownReturned, trackerVars, monitorVars,
                   fgPc, fgArg, crashed, storeVars, lockVars>>

\* UpdateConfig replaces the config; the cleanup ticker is left as it is.
UpdateConfig(c) ==
    /\ config' = c
    /\ UNCHANGED <<cleanupTickerNext, tickerC, tickerStopped>>

(***************************************************************************)
(* Shutdown: close(stopCleanup); cleanupTicker.Stop(); CloseAllSessions(). *)
(***************************************************************************)
Shutdown_close ==
    /\ FgIdle
    /\ ~stopCleanup
    /\ stopCleanup' = TRUE
    /\ heldAtShutdown' = {sessions[w].oid : w \in DOMAIN sessions}
    /\ fgPc' = "shutdown_stop"
    /\ ret' = Result("Shutdown_close", "none", TRUE)
    /\ UNCHANGED <<now, sessions, config, cleanupTickerNext, tickerC,
                   tickerStopped, cleanupRunning, activityChannel, nextToken,
                   released, shutdownReturned, trackerVars, monitorVars, fgArg,
                   crashed, storeVars, lockVars>>

\* close of a closed channel panics.
Shutdown_panic ==
    /\ FgIdle
    /\ stopCleanup
    /\ crashed' = TRUE
    /\ ret' = Result("Shutdown", "none", FALSE)
    /\ UNCHANGED <<now, registryVars, trackerVars, monitorVars, fgPc, fgArg,
                   storeVars, lockVars>>

Shutdown_stopTicker ==
    /\ fgPc = "shutdown_stop" /\ ~crashed
    /\ tickerStopped' = TRUE
    /\ fgPc' = "shutdown_closeall"
    /\ ret' = Result("Shutdown_stopTicker", "none", TRUE)
    /\ UNCHANGED <<now, sessions, config, cleanupTickerNext, tickerC,
                   stopCleanup, cleanupRunning, activityChannel, nextToken,
                   released, heldAtShutdown, shutdownReturned, trackerVars,
                   monitorVars, fgArg, crashed, storeVars, lockVars>>

Shutdown_closeAll ==
    /\ fgPc = "shutdown_closeall" /\ ~crashed
    /\ CloseAll
    /\ shutdownReturned' = TRUE
    /\ fgPc' = "idle"
    /\ ret' = Result("Shutdown", "none", TRUE)
    /\ UNCHANGED <<now, config, cleanupTickerNext, tickerC, tickerStopped,
                   stopCleanup, cleanupRunning, activityChannel, nextToken,
                   heldAtShutdown, trackerVars, monitorVars, fgArg, crashed,
                   storeVars, lockVars>>

(***************************************************************************)
(* SessionManager: background goroutines.                                  *)
(***************************************************************************)
\* The period of cleanupTicker: the CleanupInterval of the config in force
\* when startCleanupRoutine ran, which is NewSessionManager's.
TickerPeriod == DefaultConfig.CleanupInterval

\* The entries cleanupExpiredSessions removes.
SweptNow == {w \in DOMAIN sessions : now > sessions[w].ExpiresAt}

\* case <-sm.cleanupTicker.C: sm.cleanupExpiredSessions()
cleanupExpiredSessions ==
    /\ ~crashed
    /\ cleanupRunning
    /\ tickerC = 1
    /\ tickerC' = 0
    /\ released' = released \cup {Heap(Deactivate(sessions[w])) : w \in SweptNow}
    /\ sessions' = [w \in (DOMAIN sessions) \ SweptNow |-> sessions[w]]
    /\ ret' = Result("cleanupExpiredSessions", "none", TRUE)
    /\ UNCHANGED <<now, config, cleanupTickerNext, tickerStopped, stopCleanup,
                   cleanupRunning, activityChannel, nextToken, heldAtShutdown,
                   shutdownReturned, trackerVars, monitorVars, fgPc, fgArg,
                   crashed, storeVars, lockVars>>

\* The sweep with its critical section in two steps: sm.mu.Lock() ...
cleanupExpiredSessions_lock ==
    /\ ~crashed
    /\ cleanupRunning
    /\ tickerC = 1
    /\ smMu = "free"
    /\ tickerC' = 0
    /\ smMu' = "sweep"
    /\ ret' = Result("cleanupExpiredSessions_lock", "none", TRUE)
    /\ UNCHANGED <<now, sessions, config, cleanupTickerNext, tickerStopped,
                   stopCleanup, cleanupRunning, activityChannel, nextToken,
                   released, heldAtShutdown, shutdownReturned, trackerVars,
                   monitorVars, fgPc, fgArg, crashed, storeVars, evaluating,
                   readerVars>>

\* ... the loop over sm.sessions and the deferred sm.mu.Unlock().
cleanupExpiredSessions_unlock ==
    /\ ~crashed
    /\ smMu = "sweep"
    /\ smMu' = "free"
    /\ released' = released \cup {Heap(Deactivate(sessions[w])) : w \in SweptNow}
    /\ sessions' = [w \in (DOMAIN sessions) \ SweptNow |-> sessions[w]]
    /\ ret' = Result("cleanupExpiredSessions", "none", TRUE)
    /\ UNCHANGED <<now, config, cleanupTickerNext, tickerC, tickerStopped,
                   stopCleanup, cleanupRunning, activityChannel, nextToken,
                   heldAtShutdown, shutdownReturned, trackerVars, monitorVars,
                   fgPc, fgArg, crashed, storeVars, evaluating, readerVars>>

\* case <-sm.stopCleanup: return
cleanupRoutine_stop ==
    /\ ~crashed
    /\ cleanupRunning
    /\ stopCleanup
    /\ cleanupRunning' = FALSE
    /\ ret' = Result("cleanupRoutine_stop", "none", TRUE)
    /\ UNCHANGED <<now, sessions, config, cleanupTickerNext, tickerC,
                   tickerStopped, stopCleanup, activityChannel, nextToken,
                   released, heldAtShutdown, shutdownReturned, trackerVars,
                   monitorVars, fgPc, fgArg, crashed, storeVars, lockVars>>

\* for activity := range sm.activityChannel { sm.handleActivity(activity) }
handleActivity ==
    /\ ~crashed
    /\ activityChannel # << >>
    /\ LET activity == Head(activityChannel)
       IN  IF ~CanExtend(activity.WalletID)
           THEN /\ UNCHANGED sessions
                /\ ret' = Result("handleActivity", activity.WalletID, FALSE)
           ELSE /\ sessions' = [sessions EXCEPT ![activity.WalletID] = Extended(@)]
                /\ ret' = Result("handleActivity", activity.WalletID, TRUE)
    /\ activityChannel' = Tail(activityChannel)
    /\ UNCHANGED <<now, config, cleanupTickerNext, tickerC, tickerStopped,
                   stopCleanup, cleanupRunning, nextToken, released,
                   heldAtShutdown, shutdownReturned, trackerVars, monitorVars,
                   fgPc, fgArg, crashed, storeVars, lockVars>>

(***************************************************************************)
(* SecurityManager: attempt tracker and security levels.                   *)
(***************************************************************************)
\* calculateLockoutDuration with its first step for every count.
calculateLockoutDuration_flat(attemptCount) == 60

calculateLockoutDuration(attemptCount) ==
    CASE attemptCount <= 3 -> 60
      [] attemptCount > 3 /\ attemptCount <= 5 -> 300
      [] attemptCount > 5 /\ attemptCount <= 7 -> 900
      [] OTHER -> 3600

IsAccountLocked(walletID) ==
    IF walletID \notin DOMAIN attempts
    THEN FALSE
    ELSE now < attempts[walletID].LockedUntil

GetRemainingLockoutTime(walletID) ==
    IF walletID \notin DOMAIN attempts
    THEN 0
    ELSE IF attempts[walletID].LockedUntil - now < 0
         THEN 0
         ELSE attempts[walletID].LockedUntil - now

GetFailedAttemptCount(walletID) ==
    IF walletID \notin DOMAIN attempts THEN 0 ELSE attempts[walletID].Count

\* RecordFailedAttempt's record with the lock set only above the threshold.
FailedRecord_above(walletID) ==
    LET record == IF walletID \notin DOMAIN attempts
                  THEN [Count |-> 0, LastAttempt |-> now, LockedUntil |-> ZeroTime]
                  ELSE attempts[walletID]
        counted == [record EXCEPT !.Count = @ + 1, !.LastAttempt = now]
    IN  IF counted.Count > maxAttempts
        THEN [counted EXCEPT !.LockedUntil =
                                now + calculateLockoutDuration(counted.Count)]
        ELSE counted

\* The record RecordFailedAttempt leaves for walletID.
FailedRecord(walletID) ==
    LET record == IF walletID \notin DOMAIN attempts
                  THEN [Count |-> 0, LastAttempt |-> now, LockedUntil |-> ZeroTime]
                  ELSE attempts[walletID]
        counted == [record EXCEPT !.Count = @ + 1, !.LastAttempt = now]
    IN  IF counted.Count >= maxAttempts
        THEN [counted EXCEPT !.LockedUntil =
                                now + calculateLockoutDuration(counted.Count)]
        ELSE counted

RecordFailedAttempt(walletID) ==
    /\ FgIdle
    /\ GetFailedAttemptCount(walletID) < MaxCount
    /\ attempts' = MapPut(attempts, walletID, FailedRecord(walletID))
    /\ ret' = Result("RecordFailedAttempt", walletID, TRUE)
    /\ UNCHANGED <<now, registryVars, maxAttempts, lockoutDuration, monitorVars,
                   fgPc, fgArg, crashed, storeVars, lockVars>>

\* RecordFailedAttempt called on another goroutine while ApplySecurityLevel
\* is between its call of UpdateConfig and its call of
\* UpdateAttemptTrackerConfig: the two calls take two different locks and
\* the attempt tracker's lock is free in between.
Concurrent_RecordFailedAttempt(walletID) ==
    /\ fgPc = "apply_tracker" /\ ~crashed
    /\ GetFailedAttemptCount(walletID) < MaxCount
    /\ attempts' = MapPut(attempts, walletID, FailedRecord(walletID))
    /\ ret' = Result("Concurrent_RecordFailedAttempt", walletID, TRUE)
    /\ UNCHANGED <<now, registryVars, maxAttempts, lockoutDuration, monitorVars,
                   fgPc, fgArg, crashed, storeVars, lockVars>>

RecordSuccessfulAttempt(walletID) ==
    /\ FgIdle
    /\ attempts' = MapDelete(attempts, walletID)
    /\ ret' = Result("RecordSuccessfulAttempt", walletID, TRUE)
    /\ UNCHANGED <<now, registryVars, maxAttempts, lockoutDuration, monitorVars,
                   fgPc, fgArg, crashed, storeVars, lockVars>>

\* CleanupExpiredLockouts deleting every record whose LockedUntil has passed.
ExpiredLockouts_anyCount ==
    {w \in DOMAIN attempts : now > attempts[w].LockedUntil}

\* The records CleanupExpiredLockouts deletes.
ExpiredLockouts ==
    {w \in DOMAIN attempts :
        now > attempts[w].LockedUntil /\ attempts[w].Count >= maxAttempts}

CleanupExpiredLockouts ==
    /\ FgIdle
    /\ attempts' = [w \in (DOMAIN attempts) \ ExpiredLockouts |-> attempts[w]]
    /\ ret' = Result("CleanupExpiredLockouts", "none", TRUE)
    /\ UNCHANGED <<now, registryVars, maxAttempts, lockoutDuration, monitorVars,
                   fgPc, fgArg, crashed, storeVars, lockVars>>

UpdateAttemptTrackerConfig(max, duration) ==
    /\ FgIdle
    /\ maxAttempts' = max
    /\ lockoutDuration' = duration
    /\ ret' = Result("UpdateAttemptTrackerConfig", "none", TRUE)
    /\ UNCHANGED <<now, registryVars, attempts, monitorVars, fgPc, fgArg, crashed,
                   storeVars, lockVars>>

\* ApplySecurityLevel: sm.sessionManager.UpdateConfig(...), then
\* sm.UpdateAttemptTrackerConfig(...); each takes its own lock.
ApplySecurityLevel_config(level) ==
    /\ FgIdle
    /\ UpdateConfig(LevelConfig(level))
    /\ fgPc' = "apply_tracker"
    /\ fgArg' = level
    /\ ret' = Result("ApplySecurityLevel_config", "none", TRUE)
    /\ UNCHANGED <<now, sessions, stopCleanup, cleanupRunning, activityChannel,
                   nextToken, released, heldAtShutdown, shutdownReturned,
                   trackerVars, monitorVars, crashed, storeVars, lockVars>>

ApplySecurityLevel_tracker ==
    /\ fgPc = "apply_tracker" /\ ~crashed
    /\ maxAttempts' = LevelAttempts(fgArg).maxAttempts
    /\ lockoutDuration' = LevelAttempts(fgArg).lockoutDuration
    /\ fgPc' = "idle"
    /\ fgArg' = "none"
    /\ ret' = Result("ApplySecurityLevel", "none", TRUE)
    /\ UNCHANGED <<now, registryVars, attempts, monitorVars, crashed, storeVars, lockVars>>

(***************************************************************************)
(* ActivityMonitor.                                                        *)
(***************************************************************************)
\* shouldExtendSession with navigate among the extending actions.
shouldExtendSession_navigate(action) ==
    action \in {"view_balance", "send_transaction", "view_history",
                "manage_contacts", "navigate"}

shouldExtendSession(action) ==
    action \in {"view_balance", "send_transaction", "view_history", "manage_contacts"}

\* ActivityMonitor.RecordActivity up to its call of DetectSuspiciousActivity:
\* am.mu.Lock(), append, ExtendSessionOnActivity for an extending action.
\* DetectSuspiciousActivity then asks for am.mu.RLock() on the goroutine
\* that holds am.mu.Lock(): a sync.RWMutex grants no read lock while it is
\* write-locked, so the caller stays there and the lock is never released.
AM_RecordActivity(walletID, action, view) ==
    /\ FgIdle
    /\ ~amLocked
    /\ evaluating = {}
    /\ amReaders = {}
    /\ ~amWaiting
    /\ amLocked' = TRUE
    /\ activityLog' = Append(activityLog,
          [WalletID |-> walletID, Action |-> action, Timestamp |-> now,
           ViewName |-> view])
    /\ IF shouldExtendSession(action) /\ CanExtend(walletID)
       THEN sessions' = [sessions EXCEPT ![walletID] = Extended(@)]
       ELSE UNCHANGED sessions
    /\ fgPc' = "am_detect"
    /\ ret' = Result("AM_RecordActivity", walletID, TRUE)
    /\ UNCHANGED <<now, config, cleanupTickerNext, tickerC, tickerStopped,
                   stopCleanup, cleanupRunning, activityChannel, nextToken,
                   released, heldAtShutdown, shutdownReturned, trackerVars,
                   amNextTick, fgArg, crashed, storeVars, lockVars>>

\* CleanupOldLogs keeps the activities younger than the retention.
RetainedLog ==
    LET cutoff == now - DefaultLogRetention
        Keep(activity) == activity.Timestamp > cutoff
    IN  SelectSeq(activityLog, Keep)

\* for range ticker.C { am.CleanupOldLogs() }: needs am.mu.Lock().
AM_CleanupOldLogs ==
    /\ ~crashed
    /\ now = amNextTick
    /\ ~amLocked
    /\ evaluating = {}
    /\ amReaders = {}
    /\ amWaiting' = FALSE
    /\ activityLog' = RetainedLog
    /\ amNextTick' = amNextTick + RetentionTickerPeriod
    /\ ret' = Result("AM_CleanupOldLogs", "none", TRUE)
    /\ UNCHANGED <<now, registryVars, trackerVars, amLocked, fgPc, fgArg, crashed,
                   storeVars, smMu, evaluating, amReaders>>

\* GetRecentActivity(walletID, duration): the activities of the identity
\* with Timestamp.After(now - duration), in the order of the log.
GetRecentActivity(walletID, duration) ==
    LET cutoff == now - duration
        Recent(activity) ==
            activity.WalletID = walletID /\ activity.Timestamp > cutoff
    IN  SelectSeq(activityLog, Recent)

\* pattern.ActionFrequency[action] of analyzeActivityPattern.
ActionFrequency(recent, action) ==
    Cardinality({i \in 1..Len(recent) : recent[i].Action = action})

\* rapidTransitions of calculateRiskScore: consecutive activities less than
\* 500 ms apart.  The clock of the model counts seconds: two activities
\* recorded at one instant of it are less than 500 ms apart.
RapidTransitions(recent) ==
    Cardinality({i \in 2..Len(recent) :
                    recent[i].Timestamp - recent[i-1].Timestamp < 1})

\* repeatedViews of calculateRiskScore: the positions at which the count of
\* the view seen so far is above 10.
RepeatedViews(recent) ==
    Cardinality({i \in 1..Len(recent) :
        Cardinality({k \in 1..i : recent[k].ViewName = recent[i].ViewName}) > 10})

calculateRiskScore(recent) ==
    (IF Len(recent) > 50 THEN 5 ELSE 0)
    + (IF RapidTransitions(recent) > 10 THEN 3 ELSE 0)
    + (IF ActionFrequency(recent, "password_attempt") > 5 THEN 8 ELSE 0)
    + (IF ActionFrequency(recent, "failed_transaction") > 3 THEN 4 ELSE 0)
    + (IF RepeatedViews(recent) > 2 THEN 2 ELSE 0)

\* pattern.RiskScore of analyzeActivityPattern(walletID).
RiskScore(walletID) ==
    calculateRiskScore(GetRecentActivity(walletID, PatternWindow))

\* What DetectSuspiciousActivity(walletID) returns.
DetectSuspiciousActivity(walletID) == RiskScore(walletID) > SuspiciousThreshold

\* A goroutine other than the foreground thread calls
\* DetectSuspiciousActivity: am.mu.RLock(), granted while no goroutine holds
\* am.mu.Lock(), then analyzeActivityPattern.
AM_DetectSuspiciousActivity_begin(caller, walletID) ==
    /\ ~crashed
    /\ ~amLocked
    /\ ~amWaiting
    /\ \A e \in evaluating : e.caller # caller
    /\ evaluating' = evaluating \cup
          {[caller |-> caller, WalletID |-> walletID,
            RiskScore |-> RiskScore(walletID),
            suspicious |-> DetectSuspiciousActivity(walletID)]}
    /\ ret' = Result("DetectSuspiciousActivity_begin", walletID, TRUE)
    /\ UNCHANGED <<now, registryVars, trackerVars, monitorVars, fgPc, fgArg,
                   crashed, storeVars, smMu, readerVars>>

\* am.mu.RUnlock() and the return of DetectSuspiciousActivity.
AM_DetectSuspiciousActivity_end(caller) ==
    /\ ~crashed
    /\ \E e \in evaluating :
          /\ e.caller = caller
          /\ evaluating' = evaluating \ {e}
          /\ ret' = Result("DetectSuspiciousActivity", e.WalletID, e.suspicious)
    /\ UNCHANGED <<now, registryVars, trackerVars, monitorVars, fgPc, fgArg,
                   crashed, storeVars, smMu, readerVars>>

\* The queries of the monitor that take am.mu.RLock() and, holding it, call
\* a method that takes am.mu.RLock() again.
Queries == {"DetectSuspiciousActivity", "GetActivitySummary", "GetActivityStats"}

\* stats.UniqueWallets of GetActivityStats.
UniqueWallets == {activityLog[i].WalletID : i \in DOMAIN activityLog}

\* The calls of am.mu.RLock() a query makes while it holds the one it took on
\* entry.  DetectSuspiciousActivity and GetActivitySummary call
\* analyzeActivityPattern, which calls GetRecentActivity: one.
\* GetActivityStats calls DetectSuspiciousActivity for every identity of the
\* log: two for each.
NestedLocks(query) ==
    IF query = "GetActivityStats" THEN 2 * Cardinality(UniqueWallets) ELSE 1

\* What the query returns to its caller, as a boolean.
QueryResult(query, walletID) ==
    IF query = "DetectSuspiciousActivity" THEN DetectSuspiciousActivity(walletID)
    ELSE TRUE

\* A goroutine enters a query: am.mu.RLock(); defer am.mu.RUnlock().  A
\* sync.RWMutex grants the read lock while no goroutine holds the write
\* lock and none waits for it.  GetActivityStats on an empty log calls
\* nothing further and returns.
AM_Query_RLock(caller, query, walletID) ==
    /\ ~crashed
    /\ ~amLocked
    /\ ~amWaiting
    /\ \A r \in amReaders : r.caller # caller
    /\ IF NestedLocks(query) = 0
       THEN /\ UNCHANGED amReaders
            /\ ret' = Result(query, walletID, QueryResult(query, walletID))
       ELSE /\ amReaders' = amReaders \cup
                  {[caller |-> caller, query |-> query, WalletID |-> walletID,
                    todo |-> NestedLocks(query)]}
            /\ ret' = Result("AM_Query_RLock", walletID, TRUE)
    /\ UNCHANGED <<now, registryVars, trackerVars, monitorVars, fgPc, fgArg,
                   crashed, storeVars, smMu, evaluating, amWaiting>>

\* The next am.mu.RLock() of a query that holds the read lock, in
\* DetectSuspiciousActivity or GetRecentActivity: it is not granted while a
\* goroutine waits in am.mu.Lock().  Once granted the callee reads the log and
\* releases it; after the last one the query releases the lock it took on
\* entry and returns.
AM_Query_nestedRLock(caller) ==
    /\ ~crashed
    /\ ~amLocked
    /\ ~amWaiting
    /\ \E r \in amReaders :
          /\ r.caller = caller
          /\ IF r.todo = 1
             THEN /\ amReaders' = amReaders \ {r}
                  /\ ret' = Result(r.query, r.WalletID,
                                   QueryResult(r.query, r.WalletID))
             ELSE /\ amReaders' = (amReaders \ {r}) \cup
                                       {[r EXCEPT !.todo = @ - 1]}
                  /\ ret' = Result("AM_Query_nestedRLock", r.WalletID, TRUE)
    /\ UNCHANGED <<now, registryVars, trackerVars, monitorVars, fgPc, fgArg,
                   crashed, storeVars, smMu, evaluating, amWaiting>>

\* for range ticker.C { am.CleanupOldLogs() } while a reader holds the lock:
\* the goroutine waits in am.mu.Lock() until every read lock is released
\* (AM_CleanupOldLogs is then its continuation).
AM_CleanupOldLogs_wait ==
    /\ ~crashed
    /\ now = amNextTick
    /\ ~amLocked
    /\ ~amWaiting
    /\ amReaders # {} \/ evaluating # {}
    /\ amWaiting' = TRUE
    /\ ret' = Result("AM_CleanupOldLogs_wait", "none", TRUE)
    /\ UNCHANGED <<now, registryVars, trackerVars, monitorVars, fgPc, fgArg,
                   crashed, storeVars, smMu, evaluating, amReaders>>

(***************************************************************************)
(* SessionStore: the session file.  A file is absent, holds a JSON list of *)
(* PersistedSession records (a set: SaveSessions writes one record per     *)
(* key of the map), or holds bytes that do not parse as such a list.       *)
(* json keeps the instant of a time.Time to the nanosecond.                *)
(***************************************************************************)
FileOf(records) == [kind |-> "list", records |-> records]
\* a file cut short or overwritten: json.Unmarshal of it fails
Garbage == [kind |-> "garbage", records |-> {}]

\* encryptData: AES-GCM under the store's key with a fresh salt and a fresh
\* nonce of nonceLength bytes; the ciphertext carries the GCM tag.
encryptData(data) == [plain |-> data, tag |-> "valid", nonceLen |-> NonceLength]

\* calculateChecksum: SHA-256 of the payload, one value per payload.
calculateChecksum(encryptedData) == [sha256 |-> encryptedData]

\* decryptSessionData: cipher.AEAD.Open panics on a nonce that is not
\* NonceSize() bytes long and returns an error when the tag does not verify.
decryptSessionData(encryptedData) ==
    IF encryptedData.nonceLen # NonceLength
    THEN [outcome |-> "panic"]
    ELSE IF encryptedData.tag # "valid"
         THEN [outcome |-> "error"]
         ELSE [outcome |-> "ok", data |-> encryptedData.plain]

\* ValidateSessionIntegrity accepting every record.
ValidateSessionIntegrity_any(persisted) == TRUE

ValidateSessionIntegrity(persisted) ==
    calculateChecksum(persisted.EncryptedData) = persisted.Checksum

\* The record SaveSessions builds of a session.
PersistedOf(session) ==
    LET sessionData == [WalletID |-> session.WalletID,
                        LastActivity |-> session.LastActivity,
                        IsActive |-> session.IsActive]
        encryptedData == encryptData(sessionData)
    IN  [WalletID |-> session.WalletID, SessionToken |-> session.SessionToken,
         CreatedAt |-> session.CreatedAt, ExpiresAt |-> session.ExpiresAt,
         EncryptedData |-> encryptedData,
         Checksum |-> calculateChecksum(encryptedData)]

\* The keys of the map that SaveSessions persists.
Persistable(S, at) ==
    {w \in DOMAIN S : ~(~S[w].IsActive \/ at > S[w].ExpiresAt)}

\* persistedSessions of SaveSessions(S) at an instant.
PersistedSessions(S, at) == {PersistedOf(S[w]) : w \in Persistable(S, at)}

\* The records LoadSessions reaches decryptSessionData with.
Decrypted(records) ==
    {p \in records : ~(now > p.ExpiresAt) /\ ValidateSessionIntegrity(p)}

\* LoadSessions panics on these records.
LoadPanics(records) ==
    \E p \in Decrypted(records) :
        decryptSessionData(p.EncryptedData).outcome = "panic"

\* The records LoadSessions turns into sessions.
Materialized(records) ==
    {p \in Decrypted(records) :
        decryptSessionData(p.EncryptedData).outcome = "ok"}

\* LoadSessions taking the last activity from the record's creation time.
LoadedSession_activityFromCreation(p) ==
    LET sessionData == decryptSessionData(p.EncryptedData).data
    IN  [oid |-> 0 - p.SessionToken, WalletID |-> p.WalletID,
         UnlockedWallet |-> [nil |-> TRUE, PrivateKey |-> FALSE, Mnemonic |-> FALSE],
         CreatedAt |-> p.CreatedAt, LastActivity |-> p.CreatedAt,
         ExpiresAt |-> p.ExpiresAt, SessionToken |-> p.SessionToken,
         IsActive |-> sessionData.IsActive]

\* The WalletSession LoadSessions builds of a record.
LoadedSession(p) ==
    LET sessionData == decryptSessionData(p.EncryptedData).data
    IN  [oid |-> 0 - p.SessionToken, WalletID |-> p.WalletID,
         UnlockedWallet |-> [nil |-> TRUE, PrivateKey |-> FALSE, Mnemonic |-> FALSE],
         CreatedAt |-> p.CreatedAt, LastActivity |-> sessionData.LastActivity,
         ExpiresAt |-> p.ExpiresAt, SessionToken |-> p.SessionToken,
         IsActive |-> sessionData.IsActive]

\* The map LoadSessions returns of a list of records.
LoadedSessions(records) ==
    [w \in {p.WalletID : p \in Materialized(records)} |->
        LoadedSession(CHOOSE p \in Materialized(records) : p.WalletID = w)]

\* SaveSessions up to os.WriteFile(tempFile, data) in writeSessionsToFile.
\* MkdirAll or WriteFile fails (the temporary file is as before or cut
\* short) and the error is returned, or the process dies in the write.
SaveSessions_writeTemp(outcome) ==
    /\ FgIdle
    /\ storeCalls < MaxStoreCalls
    /\ storeCalls' = storeCalls + 1
    /\ CASE outcome = "ok" ->
              /\ tempFile' = FileOf(PersistedSessions(sessions, now))
              /\ savePending' = [S |-> sessions, at |-> now]
              /\ fgPc' = "save_rename"
              /\ ret' = Result("SaveSessions_writeTemp", "none", TRUE)
              /\ UNCHANGED crashed
         [] outcome = "error" ->
              /\ tempFile' \in {tempFile, Garbage}
              /\ ret' = Result("SaveSessions", "none", FALSE)
              /\ UNCHANGED <<savePending, fgPc, crashed>>
         [] outcome = "crash" ->
              /\ tempFile' \in {tempFile, Garbage}
              /\ crashed' = TRUE
              /\ ret' = Result("crash", "none", FALSE)
              /\ UNCHANGED <<savePending, fgPc>>
    /\ UNCHANGED <<now, lockVars, backupFile, registryVars, trackerVars, monitorVars, fgArg,
                   sessionFile, loaded, recoveryLog, saveCommitted>>

\* A rename that leaves the target cut short when it does not complete.
Renamed_torn(target, temp, outcome) ==
    IF outcome = "ok" THEN temp ELSE Garbage

\* The target of os.Rename(temp, target) afterwards: the rename replaces the
\* target in one step or leaves it alone.
Renamed(target, temp, outcome) ==
    IF outcome = "ok" THEN temp ELSE target

\* os.Rename(tempFile, ss.sessionFile); when it fails the temporary file is
\* removed and the error returned.
SaveSessions_rename(outcome) ==
    /\ fgPc = "save_rename" /\ ~crashed
    /\ sessionFile' = Renamed(sessionFile, tempFile, outcome)
    /\ CASE outcome = "ok" ->
              /\ tempFile' = NoFile
              /\ saveCommitted' = savePending
              /\ savePending' = NoSave
              /\ fgPc' = "idle"
              /\ ret' = Result("SaveSessions", "none", TRUE)
              /\ UNCHANGED crashed
         [] outcome = "error" ->
              /\ tempFile' = NoFile
              /\ savePending' = NoSave
              /\ fgPc' = "idle"
              /\ ret' = Result("SaveSessions", "none", FALSE)
              /\ UNCHANGED <<saveCommitted, crashed>>
         [] outcome = "crash" ->
              /\ crashed' = TRUE
              /\ ret' = Result("crash", "none", FALSE)
              /\ UNCHANGED <<tempFile, saveCommitted, savePending, fgPc>>
    /\ UNCHANGED <<now, lockVars, backupFile, registryVars, trackerVars, monitorVars, fgArg, loaded,
                   recoveryLog, storeCalls>>

\* An untouched record after somebody else wrote to the file: "checksum"
\* stores the SHA-256 of other bytes, "payload" changes bytes of the ciphertext,
\* "resealed" also stores the SHA-256 of the changed payload, "nonce"
\* stores a nonce of another length and the SHA-256 of the changed payload.
Tampered(p, kind) ==
    CASE kind = "checksum" ->
           [p EXCEPT !.Checksum = calculateChecksum(
                                     [p.EncryptedData EXCEPT !.tag = "other"])]
      [] kind = "payload" ->
           [p EXCEPT !.EncryptedData.tag = "forged"]
      [] kind = "resealed" ->
           [p EXCEPT !.EncryptedData.tag = "forged",
                     !.Checksum = calculateChecksum(
                                     [p.EncryptedData EXCEPT !.tag = "forged"])]
      [] kind = "nonce" ->
           [p EXCEPT !.EncryptedData.nonceLen = 1,
                     !.Checksum = calculateChecksum(
                                     [p.EncryptedData EXCEPT !.nonceLen = 1])]

\* Somebody else changes the encrypted payload of one record of the file.
TamperRecord(walletID, kind) ==
    /\ FgIdle
    /\ storeCalls < MaxStoreCalls
    /\ storeCalls' = storeCalls + 1
    /\ sessionFile.kind = "list"
    /\ \E p \in sessionFile.records :
          /\ p.WalletID = walletID
          /\ p.EncryptedData.tag = "valid"
          /\ p.EncryptedData.nonceLen = NonceLength
          /\ p.Checksum = calculateChecksum(p.EncryptedData)
          /\ sessionFile' = FileOf((sessionFile.records \ {p}) \cup {Tampered(p, kind)})
    /\ ret' = Result("TamperRecord", walletID, TRUE)
    /\ UNCHANGED <<now, lockVars, backupFile, registryVars, trackerVars, monitorVars, fgPc, fgArg,
                   crashed, tempFile, loaded, recoveryLog, savePending,
                   saveCommitted>>

\* The fields of a PersistedSession that stand in the file beside the
\* encrypted payload and its checksum.
PlainFields == {"WalletID", "SessionToken", "CreatedAt", "ExpiresAt"}

\* The records the last SaveSessions that returned nil wrote.
SavedRecords == PersistedSessions(saveCommitted.S, saveCommitted.at)

\* A record with one of its plain fields changed in the file and its
\* EncryptedData and Checksum left as they were: the identity becomes
\* another one, the token another number, the creation time the instant of
\* the change, the expiry one default timeout later.
FieldAltered(p, field) ==
    CASE field = "WalletID" ->
           [p EXCEPT !.WalletID = CHOOSE w \in WalletIDs : w # p.WalletID]
      [] field = "SessionToken" -> [p EXCEPT !.SessionToken = @ + 1]
      [] field = "CreatedAt" -> [p EXCEPT !.CreatedAt = now]
      [] field = "ExpiresAt" ->
           [p EXCEPT !.ExpiresAt = @ + DefaultConfig.DefaultTimeout]

\* Somebody else changes a plain field of one record that SaveSessions
\* wrote; the file keeps one record for an identity.
TamperField(walletID, field) ==
    /\ FgIdle
    /\ storeCalls < MaxStoreCalls
    /\ storeCalls' = storeCalls + 1
    /\ sessionFile.kind = "list"
    /\ \E p \in sessionFile.records \cap SavedRecords :
          /\ p.WalletID = walletID
          /\ FieldAltered(p, field) # p
          /\ \A q \in sessionFile.records \ {p} :
                q.WalletID # FieldAltered(p, field).WalletID
          /\ sessionFile' = FileOf((sessionFile.records \ {p})
                                      \cup {FieldAltered(p, field)})
    /\ ret' = Result("TamperField", walletID, TRUE)
    /\ UNCHANGED <<now, lockVars, backupFile, registryVars, trackerVars,
                   monitorVars, fgPc, fgArg, crashed, tempFile, loaded,
                   recoveryLog, savePending, saveCommitted>>

\* Somebody else leaves the file with content that is not the JSON of a
\* list of records.
CorruptFile ==
    /\ FgIdle
    /\ storeCalls < MaxStoreCalls
    /\ storeCalls' = storeCalls + 1
    /\ sessionFile.kind = "list"
    /\ sessionFile' = Garbage
    /\ ret' = Result("CorruptFile", "none", TRUE)
    /\ UNCHANGED <<now, lockVars, backupFile, registryVars, trackerVars, monitorVars, fgPc, fgArg,
                   crashed, tempFile, loaded, recoveryLog, savePending,
                   saveCommitted>>

\* What readSessionsFromFile and the loop of LoadSessions make of a file.
LoadOutcomeOf(file) ==
    CASE file.kind = "absent" -> [outcome |-> "ok", sessions |-> EmptyMap]
      [] file.kind = "garbage" -> [outcome |-> "error", sessions |-> EmptyMap]
      [] file.kind = "list" ->
           IF LoadPanics(file.records)
           THEN [outcome |-> "panic", sessions |-> EmptyMap]
           ELSE [outcome |-> "ok", sessions |-> LoadedSessions(file.records)]

\* What LoadSessions makes of the session file.
LoadOutcome == LoadOutcomeOf(sessionFile)

LoadSessions ==
    /\ FgIdle
    /\ storeCalls < MaxStoreCalls
    /\ storeCalls' = storeCalls + 1
    /\ CASE LoadOutcome.outcome = "ok" ->
              /\ loaded' = LoadOutcome.sessions
              /\ ret' = Result("LoadSessions", "none", TRUE)
              /\ UNCHANGED crashed
         [] LoadOutcome.outcome = "error" ->
              /\ loaded' = EmptyMap
              /\ ret' = Result("LoadSessions", "none", FALSE)
              /\ UNCHANGED crashed
         [] LoadOutcome.outcome = "panic" ->
              /\ crashed' = TRUE
              /\ ret' = Result("panic", "none", FALSE)
              /\ UNCHANGED loaded
    /\ UNCHANGED <<now, lockVars, backupFile, registryVars, trackerVars, monitorVars, fgPc, fgArg,
                   sessionFile, tempFile, recoveryLog, savePending, saveCommitted>>

\* The target of os.WriteFile(target, data) afterwards: the file is opened
\* with O_TRUNC and written in place, so a write that does not complete
\* leaves the target as it was (the open failed), cut short, or complete.
Written(target, data, outcome) ==
    IF outcome = "ok" THEN {data} ELSE {target, Garbage, data}

\* RestoreFromBackup: os.Stat and os.ReadFile of the backup, then
\* os.WriteFile(ss.sessionFile, backupData).  Without a backup file it
\* returns an error and writes nothing.
RestoreFromBackup(outcome) ==
    /\ FgIdle
    /\ storeCalls < MaxStoreCalls
    /\ storeCalls' = storeCalls + 1
    /\ IF backupFile.kind = "absent"
       THEN /\ outcome = "error"
            /\ ret' = Result("RestoreFromBackup", "none", FALSE)
            /\ UNCHANGED <<sessionFile, crashed>>
       ELSE /\ sessionFile' \in Written(sessionFile, backupFile, outcome)
            /\ CASE outcome = "ok" ->
                      /\ ret' = Result("RestoreFromBackup", "none", TRUE)
                      /\ UNCHANGED crashed
                 [] outcome = "error" ->
                      /\ ret' = Result("RestoreFromBackup", "none", FALSE)
                      /\ UNCHANGED crashed
                 [] outcome = "crash" ->
                      /\ crashed' = TRUE
                      /\ ret' = Result("crash", "none", FALSE)
    /\ UNCHANGED <<now, lockVars, backupFile, registryVars, trackerVars,
                   monitorVars, fgPc, fgArg, tempFile, loaded, recoveryLog,
                   savePending, saveCommitted>>

\* SecureDelete up to file.Sync(): without a session file it returns nil;
\* otherwise it opens the file and writes zeros over its whole length.
SecureDelete_overwrite(outcome) ==
    /\ FgIdle
    /\ storeCalls < MaxStoreCalls
    /\ storeCalls' = storeCalls + 1
    /\ IF sessionFile.kind = "absent"
       THEN /\ outcome = "ok"
            /\ ret' = Result("SecureDelete", "none", TRUE)
            /\ UNCHANGED <<sessionFile, fgPc, crashed>>
       ELSE CASE outcome = "ok" ->
                   /\ sessionFile' = Garbage
                   /\ fgPc' = "delete_remove"
                   /\ ret' = Result("SecureDelete_overwrite", "none", TRUE)
                   /\ UNCHANGED crashed
              [] outcome = "error" ->
                   /\ sessionFile' \in {sessionFile, Garbage}
                   /\ ret' = Result("SecureDelete", "none", FALSE)
                   /\ UNCHANGED <<fgPc, crashed>>
              [] outcome = "crash" ->
                   /\ sessionFile' \in {sessionFile, Garbage}
                   /\ crashed' = TRUE
                   /\ ret' = Result("crash", "none", FALSE)
                   /\ UNCHANGED fgPc
    /\ UNCHANGED <<now, lockVars, backupFile, registryVars, trackerVars,
                   monitorVars, fgArg, tempFile, loaded, recoveryLog,
                   savePending, saveCommitted>>

\* os.Remove(ss.sessionFile) of SecureDelete.
SecureDelete_remove(outcome) ==
    /\ fgPc = "delete_remove" /\ ~crashed
    /\ CASE outcome = "ok" ->
              /\ sessionFile' = NoFile
              /\ fgPc' = "idle"
              /\ ret' = Result("SecureDelete", "none", TRUE)
              /\ UNCHANGED crashed
         [] outcome = "error" ->
              /\ fgPc' = "idle"
              /\ ret' = Result("SecureDelete", "none", FALSE)
              /\ UNCHANGED <<sessionFile, crashed>>
         [] outcome = "crash" ->
              /\ sessionFile' \in {sessionFile, NoFile}
              /\ crashed' = TRUE
              /\ ret' = Result("crash", "none", FALSE)
              /\ UNCHANGED fgPc
    /\ UNCHANGED <<now, lockVars, backupFile, registryVars, trackerVars,
                   monitorVars, fgArg, tempFile, loaded, recoveryLog,
                   savePending, saveCommitted, storeCalls>>

(***************************************************************************)
(* SessionRecoveryManager.                                                 *)
(***************************************************************************)
\* A RecoveryEvent; its Action is kept as a tuple of the label and, for
\* recovered_%d_sessions, the number.
RecoveryEvent(eventType, action, success) ==
    [Timestamp |-> now, EventType |-> eventType, WalletID |-> "",
     Action |-> action, Success |-> success]

\* HandleCrashRecovery putting every loaded session into the registry's map.
Recovered_all(L) == DOMAIN L

\* The loaded sessions HandleCrashRecovery puts into the registry's map.
Recovered(L) == {w \in DOMAIN L : L[w].IsActive /\ now < L[w].ExpiresAt}

\* HandleCrashRecovery: LoadSessions, then sm.sessions[walletID] = session
\* for the loaded sessions that are active and not expired, and one
\* RecoveryEvent for the call.
HandleCrashRecovery ==
    /\ FgIdle
    /\ Len(recoveryLog) < MaxRecoveries
    /\ storeCalls < MaxStoreCalls
    /\ storeCalls' = storeCalls + 1
    /\ CASE LoadOutcome.outcome = "ok" ->
              LET L == LoadOutcome.sessions
                  R == Recovered(L)
              IN  /\ sessions' = [w \in (DOMAIN sessions) \cup R |->
                                     IF w \in R THEN L[w] ELSE sessions[w]]
                  /\ released' = released \cup
                        {Heap(sessions[w]) : w \in R \cap DOMAIN sessions}
                  /\ recoveryLog' = Append(recoveryLog,
                        RecoveryEvent("crash_recovery",
                                      <<"recovered_sessions", Cardinality(R)>>, TRUE))
                  /\ ret' = Result("HandleCrashRecovery", "none", TRUE)
                  /\ UNCHANGED crashed
         [] LoadOutcome.outcome = "error" ->
              /\ recoveryLog' = Append(recoveryLog,
                    RecoveryEvent("crash_recovery", <<"loading_persisted_sessions">>, FALSE))
              /\ ret' = Result("HandleCrashRecovery", "none", FALSE)
              /\ UNCHANGED <<sessions, released, crashed>>
         [] LoadOutcome.outcome = "panic" ->
              /\ crashed' = TRUE
              /\ ret' = Result("panic", "none", FALSE)
              /\ UNCHANGED <<sessions, released, recoveryLog>>
    /\ UNCHANGED <<now, lockVars, backupFile, config, cleanupTickerNext, tickerC, tickerStopped,
                   stopCleanup, cleanupRunning, activityChannel, nextToken,
                   heldAtShutdown, shutdownReturned, trackerVars, monitorVars,
                   fgPc, fgArg, sessionFile, tempFile, loaded, savePending,
                   saveCommitted>>

\* How a write to sm.sessions ends that is made while another goroutine is
\* inside a critical section of sm.mu: the write lands, or the runtime
\* stops the process ("fatal error: concurrent map writes").
RaceOutcomes == {"done", "fatal"}

\* RecoverFromCorruption: RestoreFromBackup, then LoadSessions, then
\* sm.sessions[walletID] = session for every loaded session, and one
\* RecoveryEvent for the call.
RecoverFromCorruption(outcome) ==
    /\ FgIdle
    /\ Len(recoveryLog) < MaxRecoveries
    /\ storeCalls < MaxStoreCalls
    /\ storeCalls' = storeCalls + 1
    /\ backupFile.kind = "absent" => outcome = "error"
    /\ \E file \in (IF backupFile.kind = "absent" THEN {sessionFile}
                    ELSE Written(sessionFile, backupFile, outcome)) :
          /\ sessionFile' = file
          /\ CASE outcome = "crash" \/
                  (outcome = "ok" /\ LoadOutcomeOf(file).outcome = "panic") ->
                    /\ crashed' = TRUE
                    /\ ret' = Result(IF outcome = "crash" THEN "crash" ELSE "panic",
                                     "none", FALSE)
                    /\ UNCHANGED <<sessions, released, recoveryLog>>
               [] outcome = "error" \/
                  (outcome = "ok" /\ LoadOutcomeOf(file).outcome = "error") ->
                    /\ recoveryLog' = Append(recoveryLog,
                          RecoveryEvent("corruption_recovery",
                                        <<"attempting_backup_restore">>, FALSE))
                    /\ ret' = Result("RecoverFromCorruption", "none", FALSE)
                    /\ UNCHANGED <<sessions, released, crashed>>
               [] outcome = "ok" /\ LoadOutcomeOf(file).outcome = "ok" ->
                    LET L == LoadOutcomeOf(file).sessions
                    IN  /\ sessions' = [w \in (DOMAIN sessions) \cup DOMAIN L |->
                                           IF w \in DOMAIN L THEN L[w]
                                           ELSE sessions[w]]
                        /\ released' = released \cup
                              {Heap(sessions[w]) :
                                  w \in (DOMAIN L) \cap DOMAIN sessions}
                        /\ recoveryLog' = Append(recoveryLog,
                              RecoveryEvent("corruption_recovery",
                                            <<"attempting_backup_restore">>, TRUE))
                        /\ ret' = Result("RecoverFromCorruption", "none", TRUE)
                        /\ UNCHANGED crashed
    /\ UNCHANGED <<now, lockVars, backupFile, config, cleanupTickerNext, tickerC,
                   tickerStopped, stopCleanup, cleanupRunning, activityChannel,
                   nextToken, heldAtShutdown, shutdownReturned, trackerVars,
                   monitorVars, fgPc, fgArg, tempFile, loaded, savePending,
                   saveCommitted>>

\* HandleCrashRecovery in two steps: srm.mu.Lock() and LoadSessions ...
HandleCrashRecovery_load ==
    /\ FgIdle
    /\ Len(recoveryLog) < MaxRecoveries
    /\ storeCalls < MaxStoreCalls
    /\ storeCalls' = storeCalls + 1
    /\ LoadOutcome.outcome = "ok"
    /\ loaded' = LoadOutcome.sessions
    /\ fgPc' = "recover_put"
    /\ ret' = Result("HandleCrashRecovery_load", "none", TRUE)
    /\ UNCHANGED <<now, lockVars, backupFile, registryVars, trackerVars, monitorVars, fgArg,
                   crashed, sessionFile, tempFile, recoveryLog, savePending,
                   saveCommitted>>

\* ... and the loop of sm.sessions[walletID] = session, made without
\* sm.mu, with the RecoveryEvent of the call.
HandleCrashRecovery_put(outcome) ==
    /\ fgPc = "recover_put" /\ ~crashed
    /\ outcome = "fatal" => smMu # "free"
    /\ LET R == Recovered(loaded)
       IN  CASE outcome = "done" ->
                  /\ sessions' = [w \in (DOMAIN sessions) \cup R |->
                                     IF w \in R THEN loaded[w] ELSE sessions[w]]
                  /\ released' = released \cup
                        {Heap(sessions[w]) : w \in R \cap DOMAIN sessions}
                  /\ recoveryLog' = Append(recoveryLog,
                        RecoveryEvent("crash_recovery",
                                      <<"recovered_sessions", Cardinality(R)>>, TRUE))
                  /\ fgPc' = "idle"
                  /\ ret' = Result("HandleCrashRecovery", "none", TRUE)
                  /\ UNCHANGED crashed
             [] outcome = "fatal" ->
                  /\ crashed' = TRUE
                  /\ ret' = Result("fatal", "none", FALSE)
                  /\ UNCHANGED <<sessions, released, recoveryLog, fgPc>>
    /\ UNCHANGED <<now, lockVars, backupFile, config, cleanupTickerNext, tickerC,
                   tickerStopped, stopCleanup, cleanupRunning, activityChannel,
                   nextToken, heldAtShutdown, shutdownReturned, trackerVars,
                   monitorVars, fgArg, sessionFile, tempFile, loaded,
                   savePending, saveCommitted, storeCalls>>

(***************************************************************************)
(* The clock.  Between two instants every goroutine that can run has run:  *)
(* a pending tick or stop signal is taken by the cleanup goroutine, the    *)
(* activity channel is drained, a foreground call in progress returns      *)
(* (unless it is blocked for good).                                        *)
(***************************************************************************)
Tick(d) ==
    /\ ~crashed
    /\ d > 0
    /\ fgPc \in {"idle", "am_detect"}
    /\ cleanupRunning => (tickerC = 0 /\ ~stopCleanup)
    /\ activityChannel = << >>
    /\ smMu = "free"
    /\ ~tickerStopped => now + d <= cleanupTickerNext
    /\ ~amLocked => (now # amNextTick /\ (now < amNextTick => now + d <= amNextTick))
    /\ \/ now + d <= MaxTime
       \/ /\ now + d = amNextTick
          /\ amNextTick <= RetentionTickerPeriod * MaxRetentionTicks
    /\ now' = now + d
    /\ IF ~tickerStopped /\ now + d = cleanupTickerNext
       THEN /\ tickerC' = 1
            /\ cleanupTickerNext' = cleanupTickerNext + TickerPeriod
       ELSE UNCHANGED <<tickerC, cleanupTickerNext>>
    /\ ret' = Result("Tick", "none", TRUE)
    /\ UNCHANGED <<sessions, config, tickerStopped, stopCleanup, cleanupRunning,
                   activityChannel, nextToken, released, heldAtShutdown,
                   shutdownReturned, trackerVars, monitorVars, fgPc, fgArg,
                   crashed, storeVars, lockVars>>

(***************************************************************************)
(* Specifications.                                                         *)
(***************************************************************************)
Next ==
    \/ \E w \in WalletIDs : CreateSession(w, WalletOf(w))
    \/ \E w \in WalletIDs : ExtendSession(w)
    \/ \E w \in WalletIDs, v \in Views : RecordActivity(w, "view_balance", v)
    \/ \E w \in WalletIDs : CloseSession(w)
    \/ CloseAllSessions
    \/ \E level \in LevelInputs : ApplySecurityLevel_config(level)
    \/ ApplySecurityLevel_tracker
    \/ cleanupExpiredSessions
    \/ handleActivity
    \/ \E d \in TickSteps : Tick(d)

Spec == Init /\ [][Next]_vars

\* The consumer goroutine of the activity channel is scheduled: an activity
\* waiting in the channel is received.
ConsumerFairSpec == Spec /\ WF_vars(handleActivity)

\* The registry under one config, set before the first session is created:
\* sequences of CreateSession and CloseSession calls, the clock and the sweep.
CreateCloseInit ==
    \E c \in {DefaultConfig} \cup {LevelConfig(level) : level \in SecurityLevels} :
        /\ InitWith(c, DefaultAttempts)
        /\ sessions = EmptyMap
        /\ nextToken = 1
        /\ activityLog = << >>
        /\ activityChannel = << >>

CreateCloseNext ==
    \/ \E w \in WalletIDs : CreateSession(w, WalletOf(w))
    \/ \E w \in WalletIDs : CloseSession(w)
    \/ cleanupExpiredSessions
    \/ \E d \in TickSteps : Tick(d)

CreateCloseSpec == CreateCloseInit /\ [][CreateCloseNext]_vars

\* The registry under one config with the status query.
StatusNext ==
    \/ CreateCloseNext
    \/ \E w \in WalletIDs : GetSessionStatus_call(w)

StatusSpec == CreateCloseInit /\ [][StatusNext]_vars

\* The registry's workers with the activity monitor and its retention sweep.
WorkersNext ==
    \/ \E w \in WalletIDs : CreateSession(w, WalletOf(w))
    \/ \E w \in WalletIDs, v \in Views : RecordActivity(w, "view_balance", v)
    \/ Shutdown_close
    \/ Shutdown_panic
    \/ Shutdown_stopTicker
    \/ Shutdown_closeAll
    \/ cleanupExpiredSessions
    \/ cleanupRoutine_stop
    \/ handleActivity
    \/ \E w \in WalletIDs, a \in Actions, v \in Views : AM_RecordActivity(w, a, v)
    \/ AM_CleanupOldLogs
    \/ \E d \in TickSteps \cup {amNextTick - now} : Tick(d)

WorkersSpec == Init /\ [][WorkersNext]_vars

\* The security level selector with the registry and the attempt tracker,
\* as their callers see them at one instant.
LevelNext ==
    \/ \E level \in AppliedLevels : ApplySecurityLevel_config(level)
    \/ ApplySecurityLevel_tracker
    \/ \E w \in WalletIDs : RecordFailedAttempt(w)
    \/ \E w \in WalletIDs : Concurrent_RecordFailedAttempt(w)
    \/ \E w \in WalletIDs : RecordSuccessfulAttempt(w)
    \/ \E w \in WalletIDs : CreateSession(w, WalletOf(w))
    \/ \E w \in WalletIDs : CloseSession(w)

LevelSpec == Init /\ [][LevelNext]_vars

\* Kinds of change somebody else makes to a record of the session file.
TamperKinds == {"checksum", "payload", "resealed", "nonce"}
\* How a step of SaveSessions that touches the file system ends.
IOOutcomes == {"ok", "error", "crash"}

\* Expiries of the sessions held when the store is first used: of a
\* session created or extended at instant 0 under the timeout of the max
\* level, and of one created at 0 under NewSessionManager's timeout.
HeldExpiries == {LevelConfig("max").DefaultTimeout, DefaultConfig.DefaultTimeout}

\* The session CreateSession made of an identity at instant 0 with token k,
\* with the expiry it has since.
SessionAtStart(walletID, k, expiresAt) ==
    [oid |-> k, WalletID |-> walletID, UnlockedWallet |-> WalletOf(walletID),
     CreatedAt |-> 0, LastActivity |-> 0, ExpiresAt |-> expiresAt,
     SessionToken |-> k, IsActive |-> TRUE]

\* The program when the store is first used, at instant 0: some identities
\* were created under NewSessionManager's config, in the order w1, w2,
\* ApplySecurityLevel(max) has returned, and each session then was extended
\* or left alone.
StoreInit ==
    /\ InitWith(LevelConfig("max"), LevelAttempts("max"))
    /\ \E held \in SUBSET WalletIDs :
       \E expiry \in [held -> HeldExpiries] :
          /\ sessions = [w \in held |->
                SessionAtStart(w, IF w = "w2" /\ "w1" \in held THEN 2 ELSE 1,
                               expiry[w])]
          /\ nextToken = Cardinality(held) + 1
    /\ activityLog = << >>
    /\ activityChannel = << >>

\* The identities whose session is extended while the store is in use.
ExtendedIDs == {"w1"}

\* The registries the program holds when the store is first used (those of
\* StoreInit).
RegistriesAtStart ==
    UNION {
        {[w \in held |->
             SessionAtStart(w, IF w = "w2" /\ "w1" \in held THEN 2 ELSE 1,
                            expiry[w])] : expiry \in [held -> HeldExpiries]}
        : held \in SUBSET WalletIDs}

\* The registries that were saved: w1 with the expiry of the max level,
\* alone or with w2 with the expiry of NewSessionManager's config.
SavedRegistries ==
    {S \in RegistriesAtStart :
        /\ "w1" \in DOMAIN S
        /\ S["w1"].ExpiresAt = LevelConfig("max").DefaultTimeout
        /\ "w2" \in DOMAIN S => S["w2"].ExpiresAt = DefaultConfig.DefaultTimeout}

\* What a file of the store holds at instant 0: nothing, bytes that are not
\* the JSON of a list of records, or what SaveSessions wrote of a registry.
FilesAtStart ==
    {NoFile, Garbage} \cup
    {FileOf(PersistedSessions(S, 0)) : S \in SavedRegistries}

\* The program when a recovery is first called, at instant 0, under the max
\* level: a registry, a session file and a backup of an earlier session
\* file.
RecoveryInit ==
    \E file \in FilesAtStart, backup \in FilesAtStart :
        /\ InitFiles(LevelConfig("max"), LevelAttempts("max"), file, backup)
        /\ sessions \in RegistriesAtStart
        /\ nextToken = Cardinality(DOMAIN sessions) + 1
        /\ activityLog = << >>
        /\ activityChannel = << >>

\* The recoveries, the restore and the deletion of the session file, with
\* the sweep and the clock.
RecoveryNext ==
    \/ HandleCrashRecovery
    \/ \E outcome \in IOOutcomes : RecoverFromCorruption(outcome)
    \/ \E outcome \in IOOutcomes : RestoreFromBackup(outcome)
    \/ \E outcome \in IOOutcomes : SecureDelete_overwrite(outcome)
    \/ \E outcome \in IOOutcomes : SecureDelete_remove(outcome)
    \/ cleanupExpiredSessions
    \/ \E d \in TickSteps : Tick(d)

RecoverySpec == RecoveryInit /\ [][RecoveryNext]_vars

\* The session store and the crash recovery with the registry.
StoreNext ==
    \/ \E w \in ExtendedIDs : ExtendSession(w)
    \/ \E outcome \in IOOutcomes : SaveSessions_writeTemp(outcome)
    \/ \E outcome \in IOOutcomes : SaveSessions_rename(outcome)
    \/ \E w \in WalletIDs, kind \in TamperKinds : TamperRecord(w, kind)
    \/ CorruptFile
    \/ LoadSessions
    \/ HandleCrashRecovery
    \/ cleanupExpiredSessions
    \/ \E d \in TickSteps : Tick(d)

StoreSpec == StoreInit /\ [][StoreNext]_vars

\* The store saving the registry, somebody else changing a plain field of a
\* record of the file, and the store loading the file.
IntegrityNext ==
    \/ SaveSessions_writeTemp("ok")
    \/ SaveSessions_rename("ok")
    \/ \E w \in WalletIDs, field \in PlainFields : TamperField(w, field)
    \/ LoadSessions
    \/ \E d \in TickSteps : Tick(d)

IntegritySpec == StoreInit /\ [][IntegrityNext]_vars

\* The attempt tracker with the clock.
TrackerNext ==
    \/ \E w \in WalletIDs : RecordFailedAttempt(w)
    \/ \E w \in WalletIDs : RecordSuccessfulAttempt(w)
    \/ CleanupExpiredLockouts
    \/ \E level \in LevelInputs :
          UpdateAttemptTrackerConfig(LevelAttempts(level).maxAttempts,
                                     LevelAttempts(level).lockoutDuration)
    \/ cleanupExpiredSessions
    \/ \E d \in TickSteps : Tick(d)

TrackerSpec == Init /\ [][TrackerNext]_vars

\* The registry's lock with the sweep, an extension, a save and the crash
\* recovery: the callers of sm.mu wait while the sweep is inside its
\* critical section, the recovery does not.
LockNext ==
    \/ \E w \in ExtendedIDs : smMu = "free" /\ ExtendSession(w)
    \/ smMu = "free" /\ SaveSessions_writeTemp("ok")
    \/ SaveSessions_rename("ok")
    \/ HandleCrashRecovery_load
    \/ \E outcome \in RaceOutcomes : HandleCrashRecovery_put(outcome)
    \/ cleanupExpiredSessions_lock
    \/ cleanupExpiredSessions_unlock
    \/ \E d \in TickSteps : Tick(d)

LockSpec == StoreInit /\ [][LockNext]_vars

\* The activity channel filled to its capacity by calls of RecordActivity at
\* instant 0 that the consumer has not yet received.
FullChannel ==
    [i \in 1..ChannelCapacity |->
        [WalletID |-> "w1", Action |-> "view_balance", Timestamp |-> 0,
         ViewName |-> "dashboard"]]

\* The registry called with the activity channel empty or full.
QueueInit ==
    /\ InitWith(DefaultConfig, DefaultAttempts)
    /\ sessions = EmptyMap
    /\ nextToken = 1
    /\ activityLog = << >>
    /\ activityChannel \in {<< >>, FullChannel}

\* The activity channel with its producer and its consumer.
QueueNext ==
    \/ \E w \in WalletIDs : CreateSession(w, WalletOf(w))
    \/ \E w \in WalletIDs, a \in Actions, v \in Views : RecordActivity(w, a, v)
    \/ handleActivity
    \/ cleanupExpiredSessions
    \/ \E d \in TickSteps : Tick(d)

QueueSpec == QueueInit /\ [][QueueNext]_vars

\* The action labels recorded on the activity monitor: two of the
\* extending ones, the three listed as not extending, and one not listed.
MonitorActions ==
    {"view_balance", "manage_contacts", "navigate", "password_attempt",
     "failed_transaction", "unknown"}

\* The goroutines that call the monitor's queries.
Callers == {"c1", "c2"}

\* count activities of one identity with one action, at one instant.
Repeated(walletID, action, view, count) ==
    [i \in 1..count |->
        [WalletID |-> walletID, Action |-> action, Timestamp |-> 0,
         ViewName |-> view]]

\* Numbers of failed unlocks and of failed transactions in the log states
\* the monitor is called in.
PasswordCounts == {0, 5, 6}
FailedCounts == {0, 4}

\* The activity monitor called in a log state: the log holds failed unlocks
\* and failed transactions of w1 of the last hour.
MonitorInit ==
    /\ InitWith(DefaultConfig, DefaultAttempts)
    /\ sessions = EmptyMap
    /\ nextToken = 1
    /\ \E p \in PasswordCounts, f \in FailedCounts :
          activityLog = Repeated("w1", "password_attempt", "unlock", p)
                        \o Repeated("w1", "failed_transaction", "send", f)
    /\ activityChannel = << >>

\* The activity monitor with the registry.
MonitorNext ==
    \/ \E w \in WalletIDs : CreateSession(w, WalletOf(w))
    \/ \E w \in WalletIDs, a \in MonitorActions, v \in Views :
          AM_RecordActivity(w, a, v)
    \/ \E c \in Callers, w \in WalletIDs : AM_DetectSuspiciousActivity_begin(c, w)
    \/ \E c \in Callers : AM_DetectSuspiciousActivity_end(c)
    \/ cleanupExpiredSessions
    \/ \E d \in TickSteps : Tick(d)

MonitorSpec == MonitorInit /\ [][MonitorNext]_vars

\* The views of the activities in the log states the risk score is computed
\* in.
RiskViews == {"dashboard", "send", "history", "contacts", "settings"}

\* count navigate activities of one identity: all on one view, or on the
\* five views in turn.
Navigations(walletID, count, spread) ==
    [i \in 1..count |->
        [WalletID |-> walletID, Action |-> "navigate", Timestamp |-> 0,
         ViewName |->
            IF spread
            THEN CASE i % 5 = 0 -> "dashboard"
                   [] i % 5 = 1 -> "send"
                   [] i % 5 = 2 -> "history"
                   [] i % 5 = 3 -> "contacts"
                   [] OTHER -> "settings"
            ELSE "dashboard"]]

\* The activities with Timestamps one second apart, the last one at
\* instant 0.
Spaced(activities) ==
    [i \in 1..Len(activities) |->
        [activities[i] EXCEPT !.Timestamp = i - Len(activities)]]

\* Numbers of activities in the log states the risk score is computed in.
OldCounts == {0, 6}
RiskPasswordCounts == {0, 5, 6}
RiskFailedCounts == {0, 3, 4}
NavigateCounts == {0, 10, 11, 12, 13, 40, 41}

\* The activity monitor queried in a log state: the log holds failed
\* unlocks of w1 that are an hour old, and failed unlocks, failed
\* transactions and navigations of w1 of the last minute, all at one
\* instant or one second apart.
RiskInit ==
    /\ InitWith(DefaultConfig, DefaultAttempts)
    /\ sessions = EmptyMap
    /\ nextToken = 1
    /\ \E o \in OldCounts, p \in RiskPasswordCounts, f \in RiskFailedCounts,
          n \in NavigateCounts, spread \in BOOLEAN, spaced \in BOOLEAN :
          LET old == [i \in 1..o |->
                        [WalletID |-> "w1", Action |-> "password_attempt",
                         Timestamp |-> 0 - PatternWindow, ViewName |-> "unlock"]]
              recent == Repeated("w1", "password_attempt", "unlock", p)
                        \o Repeated("w1", "failed_transaction", "send", f)
                        \o Navigations("w1", n, spread)
          IN  activityLog = old \o (IF spaced THEN Spaced(recent) ELSE recent)
    /\ activityChannel = << >>

\* The queries that compute the activity pattern of an identity, the
\* recording of one more activity, and the clock.
RiskNext ==
    \/ \E w \in WalletIDs : AM_DetectSuspiciousActivity_begin("c1", w)
    \/ AM_DetectSuspiciousActivity_end("c1")
    \/ \E w \in WalletIDs, v \in Views : AM_RecordActivity(w, "navigate", v)
    \/ \E d \in TickSteps : Tick(d)

RiskSpec == RiskInit /\ [][RiskNext]_vars

\* The monitor half a minute before a tick of its retention ticker, with a
\* log of activities recorded earlier.
ReadersInit ==
    /\ InitAt(DefaultConfig, DefaultAttempts, NoFile, NoFile, TickerPeriod)
    /\ sessions = EmptyMap
    /\ nextToken = 1
    /\ activityChannel = << >>
    /\ \E n1 \in 0..1, n2 \in 0..1 :
          activityLog = Repeated("w1", "navigate", "dashboard", n1)
                        \o Repeated("w2", "navigate", "dashboard", n2)

\* Goroutines that run the queries of the monitor, the retention goroutine,
\* the sweep of the registry and the clock.
ReadersNext ==
    \/ \E c \in Callers, w \in WalletIDs :
          \/ AM_Query_RLock(c, "DetectSuspiciousActivity", w)
          \/ AM_Query_RLock(c, "GetActivitySummary", w)
    \/ \E c \in Callers : AM_Query_RLock(c, "GetActivityStats", "none")
    \/ \E c \in Callers : AM_Query_nestedRLock(c)
    \/ AM_CleanupOldLogs_wait
    \/ AM_CleanupOldLogs
    \/ cleanupExpiredSessions
    \/ \E d \in TickSteps : Tick(d)

ReadersSpec == ReadersInit /\ [][ReadersNext]_vars

\* ReadersSpec with every goroutine that can run running in the end.
ReadersFairSpec == ReadersSpec /\ WF_vars(ReadersNext)

\* MonitorSpec with every step that stays possible taken in the end: a
\* goroutine that can run does run.
MonitorFairSpec == MonitorSpec /\ WF_vars(MonitorNext)

(***************************************************************************)
(* Properties of the session registry.                                     *)
(***************************************************************************)
\* The tokens a caller presents to ValidateSession: the empty token and
\* every token handed out so far or next.
TokenInputs == 0..MaxTokens

\* The session objects of an identity that have left the map.
ReleasedOf(walletID) == {o \in released : o.WalletID = walletID}

C2_NeverOverMaxSessions ==
    /\ [](Cardinality(DOMAIN sessions) <= config.MaxSessions)
    /\ [][\A w \in WalletIDs :
             (CreateSession(w, WalletOf(w))
                 /\ Cardinality(DOMAIN sessions) = config.MaxSessions) =>
                /\ sessions' = sessions
                /\ ret' = Result("CreateSession", w, FALSE)
         ]_vars

\* A CreateSession was refused at capacity.
C2_Witness ==
    /\ ret.op = "CreateSession" /\ ~ret.ok
    /\ Cardinality(DOMAIN sessions) = config.MaxSessions

\* C3 as stated: GetSession returns the session iff the entry exists, is
\* active and now < expiry.
C3_Original ==
    \A w \in WalletIDs :
        GetSession(w) <=>
            /\ w \in DOMAIN sessions
            /\ sessions[w].IsActive
            /\ now < sessions[w].ExpiresAt

\* C3: GetSession returns the session iff the entry exists, is active and
\* now <= expiry: the session is still returned at the instant of its
\* expiry, and an entry with now > expiry is reported not found although
\* the sweep has not removed it.
C3_GetUpToExpiry ==
    \A w \in WalletIDs :
        GetSession(w) <=>
            /\ w \in DOMAIN sessions
            /\ sessions[w].IsActive
            /\ now <= sessions[w].ExpiresAt

\* An entry whose expiry has passed is still in the map.
C3_Witness ==
    \E w \in DOMAIN sessions :
        /\ sessions[w].IsActive
        /\ now > sessions[w].ExpiresAt
        /\ ~GetSession(w)

\* C4: ValidateSession(identity, token) is true exactly when the entry
\* exists, is active, is not expired and stores the given token, and
\* whenever it is true GetSession(identity) succeeds at the same instant.
C4_ValidateImpliesGet ==
    \A w \in WalletIDs, t \in TokenInputs :
        /\ ValidateSession(w, t) <=>
              /\ w \in DOMAIN sessions
              /\ sessions[w].IsActive
              /\ ~(now > sessions[w].ExpiresAt)
              /\ sessions[w].SessionToken = t
        /\ ValidateSession(w, t) => GetSession(w)

\* At the instant of its expiry an identity validates with its token, and
\* with no other one, and GetSession returns its session.
C4_Witness ==
    \E w \in DOMAIN sessions :
        /\ now = sessions[w].ExpiresAt
        /\ ValidateSession(w, sessions[w].SessionToken)
        /\ \A t \in TokenInputs \ {sessions[w].SessionToken} : ~ValidateSession(w, t)
        /\ GetSession(w)

\* C5 as stated: while a session object stays in the map its expiry never
\* decreases, whatever step is taken and whatever config is in force.
C5_Original ==
    [][\A w \in WalletIDs :
          (/\ w \in DOMAIN sessions
           /\ w \in DOMAIN sessions'
           /\ sessions'[w].oid = sessions[w].oid
           /\ sessions[w].IsActive) =>
              sessions'[w].ExpiresAt >= sessions[w].ExpiresAt
      ]_vars

\* C6 as stated: no entry is in the map more than one configured sweep
\* interval (config.CleanupInterval) after its expiry.
C6_Original ==
    \A w \in DOMAIN sessions :
        now <= sessions[w].ExpiresAt + config.CleanupInterval

\* C7 as stated: no session object that has left the map carries a
\* non-empty token, a private key or a mnemonic.
C7_Original ==
    \A o \in released : ~CarriesSecret(o)

(***************************************************************************)
(* Properties of Shutdown.                                                 *)
(***************************************************************************)
\* C8: when Shutdown returns the map is empty, GetActiveSessions is empty,
\* and every session object that was in the map when Shutdown was called
\* has left it with its token empty and without private key and mnemonic.
C8_ShutdownClearsAll ==
    ret = Result("Shutdown", "none", TRUE) =>
        /\ DOMAIN sessions = {}
        /\ GetActiveSessions = {}
        /\ \A id \in heldAtShutdown :
              /\ \E o \in released : o.oid = id
              /\ \A o \in released : o.oid = id => (~o.IsActive /\ ~CarriesSecret(o))

\* Shutdown has returned, called while the session of w1 (private key and
\* mnemonic set) and the session of w2 were in the map.
C8_Witness ==
    /\ ret = Result("Shutdown", "none", TRUE)
    /\ Cardinality(heldAtShutdown) = 2
    /\ \E o \in ReleasedOf("w1") : o.oid \in heldAtShutdown

\* C9 as stated: once Shutdown has returned, the sweep of the registry, the
\* consumer of the activity channel and the retention sweep of the activity
\* log take no step.
C9_Original ==
    shutdownReturned =>
        ret.op \notin {"cleanupExpiredSessions", "handleActivity", "AM_CleanupOldLogs"}

(***************************************************************************)
(* Properties of the attempt tracker.                                      *)
(***************************************************************************)
\* C10: a RecordFailedAttempt that brings the count of an identity to the
\* threshold or above leaves it locked; IsAccountLocked is true exactly
\* while GetRemainingLockoutTime is positive; over every step that is not
\* a RecordFailedAttempt for the identity the remaining lockout does not
\* grow, and when the clock advances by d it falls by d, down to zero; a
\* RecordSuccessfulAttempt leaves the identity unlocked with a remaining
\* lockout of zero.
C10_LockoutRunsDown ==
    /\ [](\A w \in WalletIDs :
             IsAccountLocked(w) <=> GetRemainingLockoutTime(w) > 0)
    /\ [][\A w \in WalletIDs :
             /\ (RecordFailedAttempt(w)
                    /\ GetFailedAttemptCount(w)' >= maxAttempts) =>
                   IsAccountLocked(w)'
             /\ ~RecordFailedAttempt(w) =>
                   GetRemainingLockoutTime(w)' <= GetRemainingLockoutTime(w)
             /\ now' > now =>
                   GetRemainingLockoutTime(w)' =
                       IF GetRemainingLockoutTime(w) > now' - now
                       THEN GetRemainingLockoutTime(w) - (now' - now)
                       ELSE 0
             /\ RecordSuccessfulAttempt(w) =>
                   /\ ~IsAccountLocked(w)'
                   /\ GetRemainingLockoutTime(w)' = 0
         ]_vars

\* An identity was locked by failures at the threshold and its lockout has
\* run down to zero with the clock.
C10_Witness ==
    \E w \in DOMAIN attempts :
        /\ attempts[w].Count >= maxAttempts
        /\ attempts[w].LockedUntil > attempts[w].LastAttempt
        /\ now >= attempts[w].LockedUntil
        /\ ~IsAccountLocked(w)
        /\ GetRemainingLockoutTime(w) = 0

\* The step function of the lockout: 1 minute up to 3 failures, 5 minutes up
\* to 5, 15 minutes up to 7, 1 hour beyond.
LockoutStep(c) ==
    IF c <= 3 THEN 60 ELSE IF c <= 5 THEN 300 ELSE IF c <= 7 THEN 900 ELSE 3600

\* C11: a RecordFailedAttempt raises the count of the identity by one to c;
\* with c at the threshold or above the lockout expiry becomes
\* now + f(c), f the step function 1m / 5m / 15m / 1h, which never falls as
\* c grows; with c below the threshold the lockout expiry is left as it
\* was (zero for a new record); the third failure under threshold 3 leaves
\* the identity locked with one minute remaining.
C11_LockoutStepFunction ==
    /\ [](\A c1 \in 1..(MaxCount + 1), c2 \in 1..(MaxCount + 1) :
             c1 <= c2 => calculateLockoutDuration(c1) <= calculateLockoutDuration(c2))
    /\ [][\A w \in WalletIDs :
             RecordFailedAttempt(w) =>
                LET c == GetFailedAttemptCount(w)'
                    before == IF w \in DOMAIN attempts
                              THEN attempts[w].LockedUntil ELSE ZeroTime
                IN  /\ c = GetFailedAttemptCount(w) + 1
                    /\ c >= maxAttempts =>
                          attempts'[w].LockedUntil = now + LockoutStep(c)
                    /\ c < maxAttempts => attempts'[w].LockedUntil = before
                    /\ (c = 3 /\ maxAttempts = 3) =>
                          /\ IsAccountLocked(w)'
                          /\ GetRemainingLockoutTime(w)' = 60
         ]_vars

\* An identity has failed eight times and is locked for one hour from its
\* last failure.
C11_Witness ==
    \E w \in DOMAIN attempts :
        /\ attempts[w].Count = 8
        /\ attempts[w].LockedUntil = attempts[w].LastAttempt + 3600
        /\ IsAccountLocked(w)

(***************************************************************************)
(* Properties of the security level selector.                              *)
(***************************************************************************)
\* C12 as stated: a record whose count is below the threshold in force has
\* a zero or past lockout expiry, so its identity is not locked.
C12_Original ==
    \A w \in DOMAIN attempts :
        attempts[w].Count < maxAttempts =>
            /\ attempts[w].LockedUntil <= now
            /\ ~IsAccountLocked(w)

\* The preset of a level is in force: ApplySecurityLevel(level) has returned
\* and nothing has replaced what it set.
LevelInForce(level) ==
    /\ fgPc = "idle"
    /\ config = LevelConfig(level)
    /\ maxAttempts = LevelAttempts(level).maxAttempts
    /\ lockoutDuration = LevelAttempts(level).lockoutDuration

\* C13 as stated: with the preset of max in force the timeout is 2 minutes,
\* MaxSessions is 1, one attempt is allowed, and the first RecordFailedAttempt
\* of an identity leaves it locked with one hour remaining.
C13_Original ==
    LevelInForce("max") =>
        /\ config.DefaultTimeout = 120
        /\ config.MaxSessions = 1
        /\ maxAttempts = 1
        /\ \A w \in WalletIDs :
              (ret = Result("RecordFailedAttempt", w, TRUE)
                  /\ attempts[w].Count = 1) =>
                 /\ IsAccountLocked(w)
                 /\ GetRemainingLockoutTime(w) = 3600

\* The SessionConfig and the attempt thresholds are those of one level (or
\* those of construction).
LevelsMatched ==
    \/ /\ config = DefaultConfig
       /\ maxAttempts = 3
       /\ lockoutDuration = 900
    \/ \E level \in SecurityLevels :
          /\ config = LevelConfig(level)
          /\ maxAttempts = LevelAttempts(level).maxAttempts
          /\ lockoutDuration = LevelAttempts(level).lockoutDuration

\* C14 as stated: an operation that runs concurrently with
\* ApplySecurityLevel never runs with the SessionConfig of one level and
\* the attempt thresholds of another.
C14_Original ==
    ret.op = "Concurrent_RecordFailedAttempt" => LevelsMatched

(***************************************************************************)
(* Properties of CreateSession.                                            *)
(***************************************************************************)
\* The identities whose session GetSession returns: the active sessions.
ActiveNow == {w \in WalletIDs : GetSession(w)}

\* C15 as stated: CreateSession fails exactly when the number of active
\* sessions is at config.MaxSessions (or above), and then leaves the map
\* as it is; otherwise it stores for the identity a session with a fresh
\* non-empty token, the active flag set, CreatedAt = LastActivity = now and
\* ExpiresAt = now + config.DefaultTimeout.
C15_Original ==
    [][\A w \in WalletIDs :
          CreateSession(w, WalletOf(w)) =>
             IF Cardinality(ActiveNow) >= config.MaxSessions
             THEN /\ ret' = Result("CreateSession", w, FALSE)
                  /\ sessions' = sessions
             ELSE /\ ret' = Result("CreateSession", w, TRUE)
                  /\ w \in DOMAIN sessions'
                  /\ sessions'[w].SessionToken # NoToken
                  /\ \A x \in DOMAIN sessions :
                        sessions'[w].SessionToken # sessions[x].SessionToken
                  /\ \A o \in released :
                        sessions'[w].SessionToken # o.SessionToken
                  /\ sessions'[w].IsActive
                  /\ sessions'[w].CreatedAt = now
                  /\ sessions'[w].LastActivity = now
                  /\ sessions'[w].ExpiresAt = now + config.DefaultTimeout
                  /\ \A x \in (DOMAIN sessions) \ {w} :
                        x \in DOMAIN sessions' /\ sessions'[x] = sessions[x]
      ]_vars

\* Nobody but SaveSessions has written the file the store holds.
FileAsSaved ==
    /\ saveCommitted # NoSave
    /\ sessionFile.kind = "list"
    /\ \A p \in sessionFile.records :
          /\ p.EncryptedData.tag = "valid"
          /\ p.EncryptedData.nonceLen = NonceLength
          /\ p.Checksum = calculateChecksum(p.EncryptedData)

\* A session equals the one of the saved map in what the round trip keeps.
SameSession(l, o) ==
    /\ l.WalletID = o.WalletID
    /\ l.SessionToken = o.SessionToken
    /\ l.CreatedAt = o.CreatedAt
    /\ l.ExpiresAt = o.ExpiresAt
    /\ l.LastActivity = o.LastActivity
    /\ l.IsActive
    /\ l.UnlockedWallet.nil

\* C16: a LoadSessions of the file a SaveSessions(S) left returns every
\* session of S that was active and before its expiry at the save and is
\* before its expiry at the load, with the identity, token, creation,
\* expiry and last activity it had in S, an active flag and no wallet; and
\* it returns no session that is not one of S.
C16_SaveLoadRoundTrip ==
    [][(LoadSessions /\ FileAsSaved) =>
         LET S == saveCommitted.S
             at == saveCommitted.at
         IN  /\ ret' = Result("LoadSessions", "none", TRUE)
             /\ \A w \in DOMAIN S :
                   (S[w].IsActive /\ at < S[w].ExpiresAt /\ now < S[w].ExpiresAt)
                      => w \in DOMAIN loaded'
             /\ \A w \in DOMAIN loaded' :
                   w \in DOMAIN S /\ SameSession(loaded'[w], S[w])]_vars

\* A load of an untouched file has returned a session whose last activity
\* is later than its creation and has left out an expired session of the
\* saved map.
C16_Witness ==
    /\ ret = Result("LoadSessions", "none", TRUE)
    /\ FileAsSaved
    /\ \E w \in DOMAIN loaded : loaded[w].LastActivity > loaded[w].CreatedAt
    /\ \E w \in DOMAIN saveCommitted.S :
          w \notin DOMAIN loaded /\ now > saveCommitted.S[w].ExpiresAt

\* Somebody else has changed the encrypted payload of a record.
PayloadTampered(p) ==
    p.EncryptedData.tag # "valid" \/ p.EncryptedData.nonceLen # NonceLength

\* A record of the file is as SaveSessions wrote it.
Untouched(p) ==
    ~PayloadTampered(p) /\ p.Checksum = calculateChecksum(p.EncryptedData)

\* C17: a LoadSessions of a file in which the encrypted payload of records
\* was tampered with returns without error, returns no session of a
\* tampered record, and returns every untampered record before its expiry
\* as it was saved.
C17_Original ==
    [][(LoadSessions /\ sessionFile.kind = "list") =>
         /\ ret' = Result("LoadSessions", "none", TRUE)
         /\ \A p \in sessionFile.records :
               /\ PayloadTampered(p) => p.WalletID \notin DOMAIN loaded'
               /\ (Untouched(p) /\ now < p.ExpiresAt) =>
                      /\ p.WalletID \in DOMAIN loaded'
                      /\ SameSession(loaded'[p.WalletID],
                                     saveCommitted.S[p.WalletID])]_vars

\* The record of the file a loaded session was made of.
RecordOf(w) == CHOOSE p \in sessionFile.records : p.WalletID = w

\* C18: every session LoadSessions returns was made of a record whose
\* stored checksum is the SHA-256 of its payload and whose expiry is not
\* before the instant of the load; every session HandleCrashRecovery puts
\* into the registry was made of such a record whose expiry is after the
\* instant of the recovery.
C18_LoadOnlyIntactUnexpired ==
    /\ [](ret = Result("LoadSessions", "none", TRUE) =>
            \A w \in DOMAIN loaded :
               /\ \E p \in sessionFile.records : p.WalletID = w
               /\ RecordOf(w).Checksum = calculateChecksum(RecordOf(w).EncryptedData)
               /\ now <= RecordOf(w).ExpiresAt)
    /\ [][HandleCrashRecovery =>
            \A w \in DOMAIN sessions' :
               (w \notin DOMAIN sessions \/ sessions'[w] # sessions[w]) =>
                  /\ \E p \in sessionFile.records : p.WalletID = w
                  /\ RecordOf(w).Checksum = calculateChecksum(RecordOf(w).EncryptedData)
                  /\ now < RecordOf(w).ExpiresAt]_vars

\* A load has returned a session at the instant of its expiry and has left
\* out a record whose stored checksum is not that of its payload.
C18_Witness ==
    /\ ret = Result("LoadSessions", "none", TRUE)
    /\ \E w \in DOMAIN loaded : loaded[w].ExpiresAt = now
    /\ \E p \in sessionFile.records :
          /\ p.Checksum # calculateChecksum(p.EncryptedData)
          /\ ~PayloadTampered(p)
          /\ now <= p.ExpiresAt
          /\ p.WalletID \notin DOMAIN loaded

\* C18 as stated: no session LoadSessions returns was made of a record with
\* now >= expiry or with a mismatching checksum.
C18_Original ==
    ret = Result("LoadSessions", "none", TRUE) =>
       \A w \in DOMAIN loaded :
          /\ RecordOf(w).Checksum = calculateChecksum(RecordOf(w).EncryptedData)
          /\ ~(now >= RecordOf(w).ExpiresAt)

\* A step of SaveSessions.
SaveStep ==
    \E outcome \in IOOutcomes :
        SaveSessions_writeTemp(outcome) \/ SaveSessions_rename(outcome)

\* The list of records the SaveSessions in progress is writing.
NewList == FileOf(PersistedSessions(savePending.S, savePending.at))

\* C19: every step of SaveSessions, also one that fails or in which the
\* process dies, leaves the session file as it was or holding the whole new
\* list; it holds the new list only when SaveSessions returns nil, and a
\* step that fails without the process dying returns the error.
C19_SaveKeepsCommittedFile ==
    [][SaveStep =>
         /\ sessionFile' = sessionFile \/ sessionFile' = NewList
         /\ sessionFile' # sessionFile => ret' = Result("SaveSessions", "none", TRUE)
         /\ ret' = Result("SaveSessions", "none", TRUE) =>
               /\ sessionFile' = NewList
               /\ saveCommitted' = savePending
         /\ (fgPc' = "idle" /\ ~crashed' /\ ret' # Result("SaveSessions", "none", TRUE))
               => /\ ret' = Result("SaveSessions", "none", FALSE)
                  /\ sessionFile' = sessionFile]_vars

\* A SaveSessions of a changed registry has failed after an earlier one
\* returned nil, and the file still holds the list of the earlier one.
C19_Witness ==
    /\ ret = Result("SaveSessions", "none", FALSE)
    /\ saveCommitted # NoSave
    /\ sessionFile = FileOf(PersistedSessions(saveCommitted.S, saveCommitted.at))
    /\ sessionFile # FileOf(PersistedSessions(sessions, now))
    /\ tempFile = NoFile

\* LoadSessions drops the record for its checksum or for a failed decryption.
DroppedAsBad(p) ==
    /\ now <= p.ExpiresAt
    /\ \/ ~ValidateSessionIntegrity(p)
       \/ decryptSessionData(p.EncryptedData).outcome = "error"

\* C20: when HandleCrashRecovery has returned nil, the recovery log holds,
\* for every record its load dropped for a checksum mismatch or a failed
\* decryption, an event that names the record's identity.
C20_Original ==
    ret = Result("HandleCrashRecovery", "none", TRUE) =>
       \A p \in sessionFile.records :
          DroppedAsBad(p) =>
             \E i \in 1..Len(recoveryLog) : recoveryLog[i].WalletID = p.WalletID

FailedUnlocks(w) ==
    ActionFrequency(GetRecentActivity(w, PatternWindow), "password_attempt")

C23_Original ==
    (fgPc = "am_detect" /\ amLocked) ~> (fgPc = "idle" /\ ~amLocked)

\* C24: every RecordActivity on the registry returns in its one step; it
\* appends the activity to the channel when fewer than 100 activities
\* wait, and leaves the channel as it is when 100 wait; in both cases it
\* changes no session.
C24_RecordActivityNeverBlocks ==
    [][\A w \in WalletIDs, a \in Actions, v \in Views :
          RecordActivity(w, a, v) =>
             /\ fgPc' = "idle" /\ ~crashed'
             /\ sessions' = sessions
             /\ Len(activityChannel') <= ChannelCapacity
             /\ IF Len(activityChannel) < ChannelCapacity
                THEN /\ activityChannel' = Append(activityChannel,
                            [WalletID |-> w, Action |-> a, Timestamp |-> now,
                             ViewName |-> v])
                     /\ ret' = Result("RecordActivity", w, TRUE)
                ELSE /\ activityChannel' = activityChannel
                     /\ ret' = Result("RecordActivity", w, FALSE)]_vars

\* RecordActivity has returned after dropping its activity: 100 activities
\* wait in the channel.
C24_Witness ==
    /\ ret = Result("RecordActivity", "w2", FALSE)
    /\ Len(activityChannel) = ChannelCapacity
    /\ fgPc = "idle"

\* C25: no step changes the session map while another goroutine is inside
\* a critical section of the registry's lock; the only step that changes it
\* while the lock is held is the one of the goroutine that holds it.
C25_Original ==
    [][sessions' # sessions =>
          \/ smMu = "free"
          \/ cleanupExpiredSessions_unlock]_vars

\* C26: at no instant are two analyses of the activity of one identity in
\* progress.
C26_Original ==
    \A e1 \in evaluating, e2 \in evaluating :
        e1.WalletID = e2.WalletID => e1 = e2

(***************************************************************************)
(* Properties of the status query and of expiry.                           *)
(***************************************************************************)
\* The entry of the identity exists with its active flag set.
ActiveEntry(w) == w \in DOMAIN sessions /\ sessions[w].IsActive

\* C27: GetSessionStatus returns one of active, expiring, expired and
\* inactive: inactive exactly when the identity has no entry or the flag of
\* the entry is cleared, expired exactly when the entry is active and now is
\* after its expiry, expiring exactly when it is not after its expiry with
\* less than 120 s left, active otherwise; and it returns expired or
\* inactive exactly when GetSession reports not found.
C27_StatusMatchesGet ==
    \A w \in WalletIDs :
        LET status == GetSessionStatus(w)
        IN  /\ status \in {"active", "expiring", "expired", "inactive"}
            /\ status = "inactive" <=> ~ActiveEntry(w)
            /\ status = "expired" <=>
                  (ActiveEntry(w) /\ now > sessions[w].ExpiresAt)
            /\ status = "expiring" <=>
                  (/\ ActiveEntry(w)
                   /\ now <= sessions[w].ExpiresAt
                   /\ sessions[w].ExpiresAt - now < 120)
            /\ status = "active" <=>
                  (ActiveEntry(w) /\ sessions[w].ExpiresAt - now >= 120)
            /\ status \in {"expired", "inactive"} <=> ~GetSession(w)

\* GetSessionStatus was called at the instant of the session's expiry: the
\* status is expiring and GetSession finds the session.
C27_Witness ==
    /\ ret = Result("GetSessionStatus", "w1", TRUE)
    /\ "w1" \in DOMAIN sessions
    /\ sessions["w1"].ExpiresAt = now
    /\ GetSessionStatus("w1") = "expiring"
    /\ GetSession("w1")

\* The session of the identity is past its expiry and still in the map.
ExpiredUnswept(w) == w \in DOMAIN sessions /\ now > sessions[w].ExpiresAt

\* C28: an expired session is never revived: when the expiry of an
\* identity's session has passed, so that GetSession reports not found, a
\* step after which GetSession finds a session of the identity is a
\* CreateSession; ExtendSession and handleActivity do not move the expiry
\* of an expired entry that is not yet swept.
C28_Original ==
    [][\A w \in WalletIDs :
          (ExpiredUnswept(w) /\ ~GetSession(w) /\ GetSession(w)')
             => CreateSession(w, WalletOf(w))]_vars

\* An activity accepted onto the channel is received by the consumer.
AcceptedIsProcessed ==
    \A w \in WalletIDs :
        ret = Result("RecordActivity", w, TRUE)
           ~> (ret.op = "handleActivity" /\ ret.id = w)

\* C29: an activity accepted onto the activity channel is eventually
\* received by the consumer, the activities are received in the order of
\* the channel, receiving one for an identity with an active session (one
\* that GetSession finds) sets LastActivity = now and ExpiresAt = now +
\* config.DefaultTimeout whatever its action, and receiving one for an
\* identity without an active session leaves the sessions as they are.
C29_Original ==
    /\ AcceptedIsProcessed
    /\ [][handleActivity =>
             LET w == Head(activityChannel).WalletID
             IN  /\ activityChannel' = Tail(activityChannel)
                 /\ IF GetSession(w)
                    THEN sessions' =
                            [sessions EXCEPT
                                ![w] = [@ EXCEPT
                                          !.LastActivity = now,
                                          !.ExpiresAt = now + config.DefaultTimeout]]
                    ELSE sessions' = sessions]_vars

\* The actions ExtendSessionOnActivity is called for.
ExtendingActions ==
    {"view_balance", "send_transaction", "view_history", "manage_contacts"}

\* C30: ActivityMonitor.RecordActivity extends the identity's session (sets
\* LastActivity = now and ExpiresAt = now + config.DefaultTimeout) exactly
\* when the action is view_balance, send_transaction, view_history or
\* manage_contacts; recording navigate, password_attempt,
\* failed_transaction or an unknown label leaves every session, with its
\* ExpiresAt and LastActivity, as it is.
C30_ExtendsOnAllowList ==
    [][\A w \in WalletIDs, a \in MonitorActions, v \in Views :
          AM_RecordActivity(w, a, v) =>
             IF a \in ExtendingActions /\ ActiveEntry(w)
             THEN /\ DOMAIN sessions' = DOMAIN sessions
                  /\ sessions'[w].LastActivity = now
                  /\ sessions'[w].ExpiresAt = now + config.DefaultTimeout
                  /\ \A o \in DOMAIN sessions \ {w} : sessions'[o] = sessions[o]
             ELSE sessions' = sessions]_vars

\* manage_contacts was recorded for w1 after its session was created, and
\* the session's LastActivity and ExpiresAt were moved to the instant of the
\* call, past those set at creation.
C30_Witness ==
    /\ ret = Result("AM_RecordActivity", "w1", TRUE)
    /\ activityLog # << >>
    /\ activityLog[Len(activityLog)].Action = "manage_contacts"
    /\ "w1" \in DOMAIN sessions
    /\ sessions["w1"].LastActivity = now
    /\ sessions["w1"].CreatedAt < now
    /\ sessions["w1"].ExpiresAt = now + config.DefaultTimeout

(***************************************************************************)
(* Properties of the risk score, of the registry's bounds and of recovery. *)
(***************************************************************************)
\* The weighted sum as stated, over the activities of the identity in the
\* last hour.
StatedRiskScore(w) ==
    LET recent == GetRecentActivity(w, PatternWindow)
        ViewCount(view) ==
            Cardinality({i \in 1..Len(recent) : recent[i].ViewName = view})
    IN  (IF Len(recent) > 50 THEN 5 ELSE 0)
        + (IF RapidTransitions(recent) > 10 THEN 3 ELSE 0)
        + (IF ActionFrequency(recent, "password_attempt") > 5 THEN 8 ELSE 0)
        + (IF ActionFrequency(recent, "failed_transaction") > 3 THEN 4 ELSE 0)
        + (IF \E i \in 1..Len(recent) : ViewCount(recent[i].ViewName) > 10
           THEN 2 ELSE 0)

Tokens == 1..MaxTokens

\* C32: at every instant at most one token validates for an identity, and
\* a CreateSession for an identity that has an entry leaves one entry for
\* it; when it stores a session, ValidateSession is false afterwards with
\* the token of the entry before the call and true with the token of the
\* new session.
C32_OneSessionOneToken ==
    /\ [](\A w \in WalletIDs :
             \A t1 \in Tokens, t2 \in Tokens :
                (ValidateSession(w, t1) /\ ValidateSession(w, t2)) => t1 = t2)
    /\ [][\A w \in WalletIDs :
             (CreateSession(w, WalletOf(w)) /\ w \in DOMAIN sessions) =>
                /\ w \in DOMAIN sessions'
                /\ ret'.ok =>
                      \E previous \in {sessions[w].SessionToken} :
                         \E new \in {sessions'[w].SessionToken} :
                            /\ previous # new
                            /\ ~(ValidateSession(w, previous))'
                            /\ (ValidateSession(w, new))']_vars

\* CreateSession has stored a second session for w1 while the first was in
\* the map: the replaced object keeps its token, which does not validate,
\* and the token of the new session validates.
C32_Witness ==
    /\ ret = Result("CreateSession", "w1", TRUE)
    /\ \E o \in released :
          /\ o.WalletID = "w1"
          /\ o.IsActive
          /\ o.SessionToken \in Tokens
          /\ ~ValidateSession("w1", o.SessionToken)
    /\ ValidateSession("w1", sessions["w1"].SessionToken)

\* C33: the registry holds at most config.MaxSessions entries in every
\* reachable state, also after UpdateConfig has lowered MaxSessions with
\* sessions in the map and after a recovery has put loaded sessions into
\* the map.
C33_Original == Cardinality(DOMAIN sessions) <= config.MaxSessions

\* The step appends one RecoveryEvent, with the success flag given.
OneRecoveryEvent(success) ==
    /\ Len(recoveryLog') = Len(recoveryLog) + 1
    /\ SubSeq(recoveryLog', 1, Len(recoveryLog)) = recoveryLog
    /\ recoveryLog'[Len(recoveryLog')].Success = success

\* After the step the registry is the one before it with the sessions of L
\* for the identities of A put over it.
Admitted(L, A) ==
    /\ DOMAIN sessions' = (DOMAIN sessions) \cup A
    /\ \A w \in A : sessions'[w] = L[w]
    /\ \A w \in (DOMAIN sessions) \ A : sessions'[w] = sessions[w]

\* C34: a call of HandleCrashRecovery or of RecoverFromCorruption that
\* returns appends one RecoveryEvent, whose Success is true exactly when
\* the call returns nil.  HandleCrashRecovery puts into the registry the
\* loaded sessions that are active with now before their expiry, and no
\* other.  RecoverFromCorruption returns nil when the session file was
\* replaced by the backup and the load of it succeeded, and otherwise
\* returns an error with the registry as it was.
C34_RecoveryLogsAndAdmits ==
    [][/\ (HandleCrashRecovery /\ ret'.op = "HandleCrashRecovery") =>
             /\ OneRecoveryEvent(ret'.ok)
             /\ ret'.ok <=> LoadOutcomeOf(sessionFile).outcome = "ok"
             /\ IF ret'.ok
                THEN LET L == LoadOutcomeOf(sessionFile).sessions
                     IN  Admitted(L, {w \in DOMAIN L :
                                         L[w].IsActive /\ now < L[w].ExpiresAt})
                ELSE sessions' = sessions
       /\ \A outcome \in IOOutcomes :
             (RecoverFromCorruption(outcome) /\ ret'.op = "RecoverFromCorruption") =>
                /\ OneRecoveryEvent(ret'.ok)
                /\ ret'.ok <=> (/\ backupFile.kind # "absent"
                                /\ outcome = "ok"
                                /\ LoadOutcomeOf(backupFile).outcome = "ok")
                /\ IF ret'.ok
                   THEN /\ sessionFile' = backupFile
                        /\ Admitted(LoadOutcomeOf(backupFile).sessions,
                                    DOMAIN LoadOutcomeOf(backupFile).sessions)
                   ELSE sessions' = sessions]_vars

\* HandleCrashRecovery has returned nil at the instant of the expiry of the
\* record of w1: of the two sessions loaded it has put the session of w2
\* into the registry and not that of w1, and has logged one event.
C34_Witness ==
    /\ ret = Result("HandleCrashRecovery", "none", TRUE)
    /\ Len(recoveryLog) = 1
    /\ recoveryLog[1].Success
    /\ sessionFile.kind = "list"
    /\ \E p \in sessionFile.records : p.WalletID = "w1" /\ p.ExpiresAt = now
    /\ "w1" \in DOMAIN LoadOutcomeOf(sessionFile).sessions
    /\ "w1" \notin DOMAIN sessions
    /\ "w2" \in DOMAIN sessions
    /\ sessions["w2"].oid < 0

(***************************************************************************)
(* Properties of the attempt tracker's cleanup, of the remaining time, of  *)
(* the store's files and of Shutdown.                                      *)
(***************************************************************************)
\* C35: CleanupExpiredLockouts deletes the records whose LockedUntil is
\* before now and whose Count is at least maxAttempts, and leaves every
\* other record as it is; a record whose Count is below maxAttempts stays
\* in the map through every step that is not a RecordSuccessfulAttempt for
\* its identity, a cleanup and the passage of time included; and a
\* RecordFailedAttempt for an identity without a record leaves Count 1.
C35_CleanupKeepsBelowThreshold ==
    [][/\ CleanupExpiredLockouts =>
             /\ DOMAIN attempts' =
                   {w \in DOMAIN attempts :
                       ~(attempts[w].LockedUntil < now
                         /\ attempts[w].Count >= maxAttempts)}
             /\ \A w \in DOMAIN attempts' : attempts'[w] = attempts[w]
       /\ \A w \in DOMAIN attempts :
             (attempts[w].Count < maxAttempts /\ ~RecordSuccessfulAttempt(w))
                => w \in DOMAIN attempts'
       /\ \A w \in WalletIDs :
             (RecordFailedAttempt(w) /\ w \notin DOMAIN attempts)
                => attempts'[w].Count = 1]_vars

\* CleanupExpiredLockouts has run two minutes after the last failure of w1:
\* the record of w1, one failure below the threshold, is in the map with
\* its count.
C35_Witness ==
    /\ ret = Result("CleanupExpiredLockouts", "none", TRUE)
    /\ "w1" \in DOMAIN attempts
    /\ attempts["w1"].Count = maxAttempts - 1
    /\ attempts["w1"].Count > 0
    /\ now >= attempts["w1"].LastAttempt + 120
    /\ "w2" \notin DOMAIN attempts

\* C36: GetTimeRemaining is 0 for an identity without an active entry or
\* with an expired one, positive for an active session before its expiry,
\* equal to the larger of 0 and ExpiresAt - now, and never above
\* config.DefaultTimeout.
C36_Original ==
    \A w \in WalletIDs :
        LET remaining == GetTimeRemaining(w)
        IN  /\ (~ActiveEntry(w) \/ ExpiredUnswept(w)) => remaining = 0
            /\ (ActiveEntry(w) /\ now < sessions[w].ExpiresAt) => remaining > 0
            /\ ActiveEntry(w) =>
                  remaining = (IF sessions[w].ExpiresAt - now > 0
                               THEN sessions[w].ExpiresAt - now ELSE 0)
            /\ remaining <= config.DefaultTimeout

(***************************************************************************)
(* Properties of the monitor's queries, of the store's files, of the       *)
(* integrity check and of Shutdown                                         *)
(***************************************************************************)

\* C37: a query of the monitor that has taken the shared lock returns, also
\* when a writer asks for the exclusive lock meanwhile: every query in
\* progress is in the end no longer in progress.
C37_Original ==
    \A c \in Callers :
        (\E r \in amReaders : r.caller = c) ~> ~(\E r \in amReaders : r.caller = c)

\* A file of the store that LoadSessions reads without an error.
Loadable(file) == LoadOutcomeOf(file).outcome = "ok"

\* C38: a crash in a step of RestoreFromBackup or SecureDelete that found a
\* loadable session file (and, for the restore, a loadable backup) leaves the
\* session file absent, as it was, or equal to the backup, and LoadSessions
\* reads it without an error.
C38_Original ==
    [][(/\ ~crashed /\ crashed'
        /\ Loadable(sessionFile)
        /\ \/ \E o \in IOOutcomes : SecureDelete_overwrite(o)
           \/ Loadable(backupFile) /\ \E o \in IOOutcomes : RestoreFromBackup(o))
       => /\ sessionFile' \in {NoFile, sessionFile, backupFile}
          /\ Loadable(sessionFile')]_vars

\* C39: every session LoadSessions returns is the session of a record as
\* SaveSessions wrote it: a record with a plain field changed in the file
\* is dropped.
C39_Original ==
    (ret.op = "LoadSessions" /\ ret.ok)
        => \A w \in DOMAIN loaded :
              \E p \in SavedRecords : loaded[w] = LoadedSession(p)

\* C40: Shutdown is idempotent: once a Shutdown has returned, every Shutdown
\* that ends, the second included, ends without a failure and with an empty
\* registry.
C40_Original ==
    (shutdownReturned /\ ret.op = "Shutdown")
        => (ret.ok /\ ~crashed /\ sessions = EmptyMap)

====
